---- MODULE Spec2Model ----
(***************************************************************************)
(* A model of the Redust server (src/src): the keyspace, the BLPOP waiter  *)
(* registry with its hand-off between LPUSH/RPUSH and BLPOP, and the       *)
(* per-connection MULTI/EXEC/DISCARD buffer.                               *)
(*                                                                         *)
(* SpecList interleaves the list handlers of commands/list.rs (and SET)    *)
(* at the granularity of their mutex acquisitions and awaits.              *)
(* SpecTxn runs the connection loop of server.rs with the dispatcher of    *)
(* commands/mod.rs and the transaction handlers of commands/transaction.rs.*)
(* SpecStream runs XADD, XRANGE and XREAD of commands/stream.rs; SpecRepl  *)
(* a master with its replica links (commands/replication.rs, protocol.rs); *)
(* SpecFollower the task of handle_master_stream on a replica; SpecIncr    *)
(* and SpecExpire the INCR and the SET PX / GET of commands/string.rs.     *)
(***************************************************************************)
EXTENDS Integers, Sequences, FiniteSets, TLC

VARIABLES
    db,                 \* AppState.db: key -> ValueEntry (Absent: key not in the map)
    blocked_clients,    \* AppState.blocked_clients: present keys -> queue of BlockedSender
    replicas,           \* AppState.replicas: sequence of replica records
    dbLock,             \* holder of the db mutex
    blockedLock,        \* holder of the blocked_clients mutex
    replicasLock,       \* holder of the replicas mutex
    pc,                 \* per connection task: position in its handler
    cmd,                \* per connection task: the parsed command being handled
    loc,                \* per connection task: the handler's local variables
    chan,               \* per connection task: the oneshot channel of its current BLPOP wait
    reply,              \* per connection task: what the current command wrote to the client
    issued,             \* number of commands received so far
    sigHead,            \* history: head of the list when a signal reached this waiter
    txn,                \* per connection: TransactionState
    exec,               \* per connection: progress of a running EXEC
    master_replication_offset,  \* AppState.master_replication_offset
    clock,              \* Instant::now(), in milliseconds
    slave_replication_offset,   \* AppState.slave_replication_offset
    master_stream       \* on a replica: the connection to its master

vars == <<db, blocked_clients, replicas, dbLock, blockedLock, replicasLock,
          pc, cmd, loc, chan, reply, issued, sigHead, txn, exec,
          master_replication_offset, clock, slave_replication_offset, master_stream>>

\* the clock and the replica's side of the link to its master
restVars == <<clock, slave_replication_offset, master_stream>>

\* ---------------------------------------------------------------- bounds
MaxCmds == 3        \* commands received in a run of SpecList
MaxTxnCmds == 5     \* commands received in a run of SpecTxn
MaxQueue == 2       \* commands queued inside one MULTI
MaxStreamCmds == 3  \* commands received in a run of SpecStream

Clients == {"A", "B", "C"}
NoClient == "-"
Keys == {"q", "r"}

\* ---------------------------------------------------------------- values
NoStream == [entries |-> <<>>, last_id |-> ""]
\* ValueEntry.expires_at (storage.rs 19): <<>> is None, <<t>> is Some(t)
NoExpiry == <<>>
Absent ==
    [type |-> "none", str |-> "", list |-> <<>>, stream |-> NoStream, expires_at |-> NoExpiry]
StringVal(s) ==
    [type |-> "string", str |-> s, list |-> <<>>, stream |-> NoStream,
     expires_at |-> NoExpiry]
ListVal(l) ==
    [type |-> "list", str |-> "", list |-> l, stream |-> NoStream, expires_at |-> NoExpiry]
StreamVal(st) ==
    [type |-> "stream", str |-> "", list |-> <<>>, stream |-> st, expires_at |-> NoExpiry]

\* ---------------------------------------------------------------- replies
RSimple(s) == [kind |-> "simple", n |-> 0, s |-> s, arr |-> <<>>, sub |-> <<>>]
RError(s) == [kind |-> "error", n |-> 0, s |-> s, arr |-> <<>>, sub |-> <<>>]
RInt(n) == [kind |-> "int", n |-> n, s |-> "", arr |-> <<>>, sub |-> <<>>]
RBulk(s) == [kind |-> "bulk", n |-> 0, s |-> s, arr |-> <<>>, sub |-> <<>>]
RArray(a) == [kind |-> "array", n |-> Len(a), s |-> "", arr |-> a, sub |-> <<>>]
RNil == [kind |-> "nil", n |-> 0, s |-> "", arr |-> <<>>, sub |-> <<>>]
\* the bare header "*N\r\n" that handle_exec writes in front of the collected replies
RArrayLen(n) == [kind |-> "array_len", n |-> n, s |-> "", arr |-> <<>>, sub |-> <<>>]

type_err == RError("WRONGTYPE Operation against a key holding the wrong kind of value")
range_err == RError("ERR value is not an integer or out of range")
ArityErr(verb) == RError("ERR wrong number of arguments for command " \o verb)

\* str::parse::<u32>() on the decimal strings the inputs use; -1 stands for Err
Decimal ==
    ("0" :> 0) @@ ("1" :> 1) @@ ("2" :> 2) @@ ("3" :> 3) @@ ("4" :> 4) @@
    ("5" :> 5) @@ ("6" :> 6) @@ ("7" :> 7) @@ ("8" :> 8) @@ ("9" :> 9)
ParseNat(s) == IF s \in DOMAIN Decimal THEN Decimal[s] ELSE -1

\* ---------------------------------------------------------------- waiters
BlockedSender(c, k) == [id |-> <<c, k>>, sender |-> <<c, k>>]
NoWaiter == [id |-> <<NoClient, 0>>, sender |-> <<NoClient, 0>>]
NoChan == [k |-> 0, st |-> "none"]
NoLoc ==
    [keysLeft |-> <<>>, client_to_wake |-> NoWaiter, timeout |-> 0, frame |-> <<>>,
     now |-> 0, master_offset |-> 0, num_replicas |-> 0, rounds |-> 0]

RemoveKey(m, key) == [k \in (DOMAIN m) \ {key} |-> m[k]]
PutKey(m, key, v) == [k \in (DOMAIN m) \cup {key} |-> IF k = key THEN v ELSE m[k]]
RemoveAt(s, i) == SubSeq(s, 1, i - 1) \o SubSeq(s, i + 1, Len(s))
Position(s, id) ==
    IF \E i \in 1..Len(s) : s[i].id = id
    THEN CHOOSE i \in 1..Len(s) : s[i].id = id /\ \A j \in 1..(i - 1) : s[j].id # id
    ELSE 0

\* ---------------------------------------------------------------- inputs
PushCmds == {<<"RPUSH", "q", "a">>, <<"LPUSH", "q", "a", "b">>, <<"RPUSH", "r", "a">>}
BlpopCmds == {<<"BLPOP", "q", "0">>, <<"BLPOP", "q", "r", "1">>}
LpopCmds == {<<"LPOP", "q">>}
SetCmds == {<<"SET", "q", "s">>}

\* server.rs 87-98: connections are accepted one after the other; a connection is
\* "new" until its first command arrives, and "idle" between two commands
ClientOrder == <<"A", "B", "C">>
CanStart(c) ==
    \/ pc[c] = "idle"
    \/ /\ pc[c] = "new"
       /\ \A i, j \in DOMAIN ClientOrder :
            (ClientOrder[j] = c /\ i < j) => pc[ClientOrder[i]] # "new"

\* ---------------------------------------------------------------- helpers
Last(s) == s[Len(s)]
Front(s) == SubSeq(s, 1, Len(s) - 1)
ParseF32(s) == ParseNat(s)

\* the loop of list.rs 45-51: LPUSH inserts each element at index 0, RPUSH appends
RECURSIVE PushAll(_, _, _)
PushAll(verb, list, elems) ==
    IF elems = <<>> THEN list
    ELSE PushAll(verb,
                 IF verb = "LPUSH" THEN <<Head(elems)>> \o list ELSE Append(list, Head(elems)),
                 Tail(elems))

\* mutant of TakeWaiter: reads the front waiter and leaves it queued
TakeWaiter_KeepsEntry(bm, key) ==
    IF key \in DOMAIN bm /\ bm[key] # <<>>
    THEN [wake |-> Head(bm[key]), map |-> bm]
    ELSE [wake |-> NoWaiter, map |-> bm]

\* list.rs 33-41: pop the front waiter of the key's queue, drop the queue when empty
TakeWaiter(bm, key) ==
    IF key \in DOMAIN bm
    THEN LET queue == bm[key]
             wake == IF queue # <<>> THEN Head(queue) ELSE NoWaiter
             rest == IF queue # <<>> THEN Tail(queue) ELSE queue
         IN  [wake |-> wake,
              map |-> IF rest = <<>> THEN RemoveKey(bm, key) ELSE PutKey(bm, key, rest)]
    ELSE [wake |-> NoWaiter, map |-> bm]

\* mutant of RegisterWaiter: the new waiter goes to the front of the queue
RegisterWaiter_Front(bm, key, w) ==
    PutKey(bm, key, <<w>> \o (IF key \in DOMAIN bm THEN bm[key] ELSE <<>>))

\* list.rs 269-276: entry(key).or_default().push_back(..)
RegisterWaiter(bm, key, w) ==
    PutKey(bm, key, Append(IF key \in DOMAIN bm THEN bm[key] ELSE <<>>, w))

\* mutant of CancelWaiter: removes the front entry whatever its id
CancelWaiter_Front(bm, key, id) ==
    IF key \in DOMAIN bm
    THEN IF Len(bm[key]) <= 1 THEN RemoveKey(bm, key) ELSE PutKey(bm, key, Tail(bm[key]))
    ELSE bm

\* list.rs 316-324: remove the entry with this id, drop the queue when empty
CancelWaiter(bm, key, id) ==
    IF key \in DOMAIN bm
    THEN LET queue == bm[key]
             pos == Position(queue, id)
             rest == IF pos # 0 THEN RemoveAt(queue, pos) ELSE queue
         IN  IF rest = <<>> THEN RemoveKey(bm, key) ELSE PutKey(bm, key, rest)
    ELSE bm

\* mutant of DropDbMap: the guard is kept across the wait
DropDbMap_Kept(c) == c

\* list.rs 262: drop(db_map) before the waiter is registered
DropDbMap(c) == NoClient

\* oneshot::Sender::send: reaches the receiver only while that receiver is alive
SendTo(ch, sender) ==
    LET d == sender[1] IN
    IF d \in Clients /\ ch[d].k = sender[2] /\ ch[d].st = "open"
    THEN [ch EXCEPT ![d].st = "sent"]
    ELSE ch

\* the loops `for replica in replicas.iter_mut() { replica.write_all(..).await? }`: the
\* replicas are written in the order of the list, and the `?` leaves the loop at the first
\* link whose write returns Err
WriteToReplicas(rs, frame) ==
    [i \in DOMAIN rs |->
        IF \A j \in 1..i : ~rs[j].closed THEN [rs[i] EXCEPT !.recv = Append(@, frame)]
        ELSE rs[i]]
\* the Err that the `?` of the loop returns from the handler
WriteFails(rs) == \E i \in DOMAIN rs : rs[i].closed

txnVars == <<txn, exec>>

\* ---------------------------------------------------------------- LPUSH / RPUSH
\* list.rs 19-26 and 73-80: arity, lock db, or_insert an empty list, type check
Push_Begin(c) ==
    /\ CanStart(c) /\ issued < MaxCmds /\ ~txn[c].in_transaction
    /\ \E parsed \in PushCmds :
        LET args == Tail(parsed) IN
        /\ issued' = issued + 1
        /\ IF Len(args) < 2
           THEN /\ reply' = [reply EXCEPT ![c] = <<ArityErr("")>>]
                /\ pc' = [pc EXCEPT ![c] = "idle"]
                /\ UNCHANGED <<db, dbLock, cmd>>
           ELSE /\ dbLock = NoClient
                /\ LET key == args[1]
                       entry == IF db[key].type = "none" THEN ListVal(<<>>) ELSE db[key]
                   IN  /\ db' = [db EXCEPT ![key] = entry]
                       /\ IF entry.type = "list"
                          THEN /\ dbLock' = c
                               /\ pc' = [pc EXCEPT ![c] = "push_lock_blocked"]
                               /\ cmd' = [cmd EXCEPT ![c] = parsed]
                               /\ reply' = [reply EXCEPT ![c] = <<>>]
                          ELSE /\ dbLock' = NoClient
                               /\ pc' = [pc EXCEPT ![c] = "idle"]
                               /\ cmd' = cmd
                               /\ reply' = [reply EXCEPT ![c] = <<type_err>>]
    /\ UNCHANGED <<blocked_clients, replicas, blockedLock, replicasLock, loc, chan,
                   sigHead, txnVars, master_replication_offset, restVars>>

\* list.rs 32
Push_LockBlocked(c) ==
    /\ pc[c] = "push_lock_blocked" /\ blockedLock = NoClient
    /\ blockedLock' = c
    /\ pc' = [pc EXCEPT ![c] = "push_pop"]
    /\ UNCHANGED <<db, blocked_clients, replicas, dbLock, replicasLock, cmd, loc, chan,
                   reply, issued, sigHead, txnVars, master_replication_offset, restVars>>

\* list.rs 33-42
Push_PopWaiter(c) ==
    /\ pc[c] = "push_pop"
    /\ LET t == TakeWaiter(blocked_clients, cmd[c][2]) IN
        /\ blocked_clients' = t.map
        /\ loc' = [loc EXCEPT ![c].client_to_wake = t.wake]
    /\ blockedLock' = NoClient
    /\ pc' = [pc EXCEPT ![c] = "push_data"]
    /\ UNCHANGED <<db, replicas, dbLock, replicasLock, cmd, chan, reply, issued, sigHead,
                   txnVars, master_replication_offset, restVars>>

\* list.rs 45-51
Push_Data(c) ==
    /\ pc[c] = "push_data"
    /\ LET key == cmd[c][2] IN
        db' = [db EXCEPT ![key] =
                  ListVal(PushAll(cmd[c][1], db[key].list, SubSeq(cmd[c], 3, Len(cmd[c]))))]
    /\ pc' = [pc EXCEPT ![c] = "push_signal"]
    /\ UNCHANGED <<blocked_clients, replicas, dbLock, blockedLock, replicasLock, cmd, loc,
                   chan, reply, issued, sigHead, txnVars, master_replication_offset, restVars>>

\* list.rs 54-57
Push_Signal(c) ==
    /\ pc[c] = "push_signal"
    /\ LET w == loc[c].client_to_wake
           sent == SendTo(chan, w.sender)
       IN  /\ chan' = IF w # NoWaiter THEN sent ELSE chan
           /\ sigHead' = IF w # NoWaiter /\ sent # chan
                         THEN [sigHead EXCEPT ![w.sender[1]] = Head(db[cmd[c][2]].list)]
                         ELSE sigHead
    /\ loc' = [loc EXCEPT ![c].client_to_wake = NoWaiter]
    /\ pc' = [pc EXCEPT ![c] = "push_reply"]
    /\ UNCHANGED <<db, blocked_clients, replicas, dbLock, blockedLock, replicasLock, cmd,
                   reply, issued, txnVars, master_replication_offset, restVars>>

\* list.rs 59-60
Push_Reply(c) ==
    /\ pc[c] = "push_reply"
    /\ reply' = [reply EXCEPT ![c] = <<RInt(Len(db[cmd[c][2]].list))>>]
    /\ loc' = [loc EXCEPT ![c].frame = cmd[c]]
    /\ pc' = [pc EXCEPT ![c] = "repl_lock"]
    /\ UNCHANGED <<db, blocked_clients, replicas, dbLock, blockedLock, replicasLock, cmd,
                   chan, issued, sigHead, txnVars, master_replication_offset, restVars>>

\* ---------------------------------------------------------------- the propagation tail
\* `state.replicas.lock().await` (list.rs 61, 205, 328; string.rs 29)
Repl_Lock(c) ==
    /\ pc[c] = "repl_lock" /\ replicasLock = NoClient
    /\ replicasLock' = c
    /\ pc' = [pc EXCEPT ![c] = "repl_write"]
    /\ UNCHANGED <<db, blocked_clients, replicas, dbLock, blockedLock, cmd, loc, chan,
                   reply, issued, sigHead, txnVars, master_replication_offset, restVars>>

\* the write loop and the return, which drops every guard the handler holds; when a
\* write fails the handler returns Err, and the connection loop (server.rs 139-143)
\* writes its error line and returns
Repl_Write(c) ==
    /\ pc[c] = "repl_write"
    /\ replicas' = WriteToReplicas(replicas, loc[c].frame)
    /\ replicasLock' = NoClient
    /\ dbLock' = IF dbLock = c THEN NoClient ELSE dbLock
    /\ loc' = [loc EXCEPT ![c] = NoLoc]
    /\ cmd' = [cmd EXCEPT ![c] = <<>>]
    /\ IF WriteFails(replicas)
       THEN /\ reply' = [reply EXCEPT ![c] = @ \o <<RError("ERR server error")>>]
            /\ pc' = [pc EXCEPT ![c] = "closed"]
       ELSE /\ pc' = [pc EXCEPT ![c] = "idle"]
            /\ UNCHANGED reply
    /\ UNCHANGED <<db, blocked_clients, blockedLock, chan, issued, sigHead,
                   txnVars, master_replication_offset, restVars>>

\* ---------------------------------------------------------------- BLPOP
\* the end of one iteration of `for key in &args[0..(args.len() - 1)]` (list.rs 244, 327)
NextKey(l, parsed) ==
    [l EXCEPT !.keysLeft = Tail(@), !.frame = IF Len(l.keysLeft) = 1 THEN parsed ELSE <<>>]
AfterKey(l) == IF Len(l.keysLeft) = 1 THEN "repl_lock" ELSE "bl_check"

\* list.rs 229-242: arity and the timeout argument
Blpop_Begin(c) ==
    /\ CanStart(c) /\ issued < MaxCmds /\ ~txn[c].in_transaction
    /\ \E parsed \in BlpopCmds :
        LET args == Tail(parsed) IN
        /\ issued' = issued + 1
        /\ IF Len(args) < 2
           THEN /\ reply' = [reply EXCEPT ![c] = <<ArityErr("blpop")>>]
                /\ pc' = [pc EXCEPT ![c] = "idle"]
                /\ UNCHANGED <<cmd, loc>>
           ELSE IF ParseF32(Last(args)) = -1
           THEN /\ reply' = [reply EXCEPT ![c] = <<range_err>>]
                /\ pc' = [pc EXCEPT ![c] = "idle"]
                /\ UNCHANGED <<cmd, loc>>
           ELSE /\ reply' = [reply EXCEPT ![c] = <<>>]
                /\ cmd' = [cmd EXCEPT ![c] = parsed]
                /\ loc' = [loc EXCEPT ![c].keysLeft = Front(args),
                                      ![c].timeout = ParseF32(Last(args))]
                /\ pc' = [pc EXCEPT ![c] = "bl_check"]
    /\ UNCHANGED <<db, blocked_clients, replicas, dbLock, blockedLock, replicasLock, chan,
                   sigHead, txnVars, master_replication_offset, restVars>>

\* list.rs 245-262: pop at once when the list has data, else release the db lock
Blpop_Check(c) ==
    /\ pc[c] = "bl_check" /\ dbLock = NoClient
    /\ LET key == Head(loc[c].keysLeft) IN
        IF db[key].type = "list" /\ db[key].list # <<>>
        THEN /\ db' = [db EXCEPT ![key] = ListVal(Tail(db[key].list))]
             /\ reply' = [reply EXCEPT ![c] = Append(@, RArray(<<key, Head(db[key].list)>>))]
             /\ loc' = [loc EXCEPT ![c] = NoLoc]
             /\ cmd' = [cmd EXCEPT ![c] = <<>>]
             /\ pc' = [pc EXCEPT ![c] = "idle"]
             /\ UNCHANGED dbLock
        ELSE /\ dbLock' = DropDbMap(c)
             /\ pc' = [pc EXCEPT ![c] = "bl_lock_blocked"]
             /\ UNCHANGED <<db, reply, loc, cmd>>
    /\ UNCHANGED <<blocked_clients, replicas, blockedLock, replicasLock, chan, issued,
                   sigHead, txnVars, master_replication_offset, restVars>>

\* list.rs 265-269: a fresh channel and id, then the registry lock
Blpop_LockBlocked(c) ==
    /\ pc[c] = "bl_lock_blocked" /\ blockedLock = NoClient
    /\ blockedLock' = c
    /\ chan' = [chan EXCEPT ![c] = [k |-> chan[c].k + 1, st |-> "open"]]
    /\ pc' = [pc EXCEPT ![c] = "bl_register"]
    /\ UNCHANGED <<db, blocked_clients, replicas, dbLock, replicasLock, cmd, loc, reply,
                   issued, sigHead, txnVars, master_replication_offset, restVars>>

\* list.rs 270-277
Blpop_Register(c) ==
    /\ pc[c] = "bl_register"
    /\ blocked_clients' = RegisterWaiter(blocked_clients, Head(loc[c].keysLeft),
                                         BlockedSender(c, chan[c].k))
    /\ blockedLock' = NoClient
    /\ pc' = [pc EXCEPT ![c] = "bl_await"]
    /\ UNCHANGED <<db, replicas, dbLock, replicasLock, cmd, loc, chan, reply, issued,
                   sigHead, txnVars, master_replication_offset, restVars>>

\* list.rs 280-291: the receiver resolves with the signal
Blpop_Wake(c) ==
    /\ pc[c] = "bl_await" /\ chan[c].st = "sent"
    /\ chan' = [chan EXCEPT ![c].st = "none"]
    /\ pc' = [pc EXCEPT ![c] = "bl_pop"]
    /\ UNCHANGED <<db, blocked_clients, replicas, dbLock, blockedLock, replicasLock, cmd,
                   loc, reply, issued, sigHead, txnVars, master_replication_offset, restVars>>

\* list.rs 283-286: the timeout elapses before any signal; the receiver is dropped
Blpop_Timeout(c) ==
    /\ pc[c] = "bl_await" /\ loc[c].timeout # 0 /\ chan[c].st = "open"
    /\ chan' = [chan EXCEPT ![c].st = "closed"]
    /\ pc' = [pc EXCEPT ![c] = "bl_cancel_lock"]
    /\ UNCHANGED <<db, blocked_clients, replicas, dbLock, blockedLock, replicasLock, cmd,
                   loc, reply, issued, sigHead, txnVars, master_replication_offset, restVars>>

\* list.rs 294-312: re-lock db and pop; nothing is written when the key holds no list
Blpop_Pop(c) ==
    /\ pc[c] = "bl_pop" /\ dbLock = NoClient
    /\ LET key == Head(loc[c].keysLeft) IN
        IF db[key].type = "list"
        THEN IF db[key].list # <<>>
             THEN /\ db' = [db EXCEPT ![key] = ListVal(Tail(db[key].list))]
                  /\ reply' = [reply EXCEPT ![c] =
                                  Append(@, RArray(<<key, Head(db[key].list)>>))]
             ELSE /\ reply' = [reply EXCEPT ![c] = Append(@, RNil)]
                  /\ UNCHANGED db
        ELSE UNCHANGED <<db, reply>>
    /\ loc' = [loc EXCEPT ![c] = NextKey(@, cmd[c])]
    /\ sigHead' = [sigHead EXCEPT ![c] = ""]
    /\ pc' = [pc EXCEPT ![c] = AfterKey(loc[c])]
    /\ UNCHANGED <<blocked_clients, replicas, dbLock, blockedLock, replicasLock, cmd, chan,
                   issued, txnVars, master_replication_offset, restVars>>

\* list.rs 316
Blpop_CancelLock(c) ==
    /\ pc[c] = "bl_cancel_lock" /\ blockedLock = NoClient
    /\ blockedLock' = c
    /\ pc' = [pc EXCEPT ![c] = "bl_cancel"]
    /\ UNCHANGED <<db, blocked_clients, replicas, dbLock, replicasLock, cmd, loc, chan,
                   reply, issued, sigHead, txnVars, master_replication_offset, restVars>>

\* list.rs 317-326
Blpop_Cancel(c) ==
    /\ pc[c] = "bl_cancel"
    /\ blocked_clients' = CancelWaiter(blocked_clients, Head(loc[c].keysLeft),
                                       <<c, chan[c].k>>)
    /\ blockedLock' = NoClient
    /\ reply' = [reply EXCEPT ![c] = Append(@, RNil)]
    /\ loc' = [loc EXCEPT ![c] = NextKey(@, cmd[c])]
    /\ chan' = [chan EXCEPT ![c].st = "none"]
    /\ pc' = [pc EXCEPT ![c] = AfterKey(loc[c])]
    /\ UNCHANGED <<db, replicas, dbLock, replicasLock, cmd, issued, sigHead, txnVars,
                   master_replication_offset, restVars>>

\* ---------------------------------------------------------------- LPOP
\* list.rs 186-204 on an existing key: the new value, the reply, or a panic
\* (`unwrap` of a count that is no u32, `Vec::remove(0)` on an empty list)
LpopEntry(entry, args) ==
    IF entry.type # "list"
    THEN [panic |-> FALSE, value |-> entry, reply |-> <<type_err>>]
    ELSE IF Len(args) >= 2
    THEN LET n == ParseNat(args[2]) IN
         IF n = -1
         THEN [panic |-> TRUE, value |-> entry, reply |-> <<>>]
         ELSE IF n > Len(entry.list)
         THEN [panic |-> TRUE, value |-> ListVal(<<>>), reply |-> <<>>]
         ELSE [panic |-> FALSE,
               value |-> ListVal(SubSeq(entry.list, n + 1, Len(entry.list))),
               reply |-> <<RArray(SubSeq(entry.list, 1, n))>>]
    ELSE IF entry.list = <<>>
         THEN [panic |-> TRUE, value |-> entry, reply |-> <<>>]
         ELSE [panic |-> FALSE, value |-> ListVal(Tail(entry.list)),
               reply |-> <<RBulk(Head(entry.list))>>]

\* list.rs 184-215; a panic unwinds the task and drops the db guard
Lpop_Run(c) ==
    /\ CanStart(c) /\ issued < MaxCmds /\ ~txn[c].in_transaction
    /\ dbLock = NoClient
    /\ \E parsed \in LpopCmds :
        LET args == Tail(parsed)
            key == args[1]
            r == LpopEntry(db[key], args)
        IN  /\ issued' = issued + 1
            /\ IF db[key].type = "none"
               THEN /\ reply' = [reply EXCEPT ![c] = <<RNil>>]
                    /\ pc' = [pc EXCEPT ![c] = "idle"]
                    /\ UNCHANGED <<db, dbLock, loc, cmd>>
               ELSE /\ db' = [db EXCEPT ![key] = r.value]
                    /\ reply' = [reply EXCEPT ![c] = r.reply]
                    /\ IF r.panic
                       THEN /\ pc' = [pc EXCEPT ![c] = "dead"]
                            /\ UNCHANGED <<dbLock, loc, cmd>>
                       ELSE /\ pc' = [pc EXCEPT ![c] = "repl_lock"]
                            /\ dbLock' = c
                            /\ cmd' = [cmd EXCEPT ![c] = parsed]
                            /\ loc' = [loc EXCEPT ![c].frame = parsed]
    /\ UNCHANGED <<blocked_clients, replicas, blockedLock, replicasLock, chan, sigHead,
                   txnVars, master_replication_offset, restVars>>

\* ---------------------------------------------------------------- SET
\* string.rs 13-28 (no PX option among these inputs)
Set_Run(c) ==
    /\ CanStart(c) /\ issued < MaxCmds /\ ~txn[c].in_transaction
    /\ dbLock = NoClient
    /\ \E parsed \in SetCmds :
        /\ cmd' = [cmd EXCEPT ![c] = parsed]
        /\ db' = [db EXCEPT ![parsed[2]] = StringVal(parsed[3])]
        /\ reply' = [reply EXCEPT ![c] = <<RSimple("OK")>>]
        /\ loc' = [loc EXCEPT ![c].frame = parsed]
    /\ issued' = issued + 1
    /\ dbLock' = c
    /\ pc' = [pc EXCEPT ![c] = "repl_lock"]
    /\ UNCHANGED <<blocked_clients, replicas, blockedLock, replicasLock, chan, sigHead,
                   txnVars, master_replication_offset, restVars>>

\* ---------------------------------------------------------------- SpecList
\* the link to the master on a server that has none
NoMasterStream ==
    [task |-> "none", unread |-> <<>>, buffer |-> <<>>, consumed |-> <<>>, written |-> <<>>]
NoTxn == [in_transaction |-> FALSE, queued_commands |-> <<>>]
NoExec == [state |-> "none", todo |-> <<>>, n |-> 0, response |-> <<>>]

InitList ==
    /\ db = [k \in Keys |-> Absent]
    /\ blocked_clients = <<>>
    /\ replicas = <<>>
    /\ dbLock = NoClient /\ blockedLock = NoClient /\ replicasLock = NoClient
    /\ pc = [c \in Clients |-> "new"]
    /\ cmd = [c \in Clients |-> <<>>]
    /\ loc = [c \in Clients |-> NoLoc]
    /\ chan = [c \in Clients |-> NoChan]
    /\ reply = [c \in Clients |-> <<>>]
    /\ issued = 0
    /\ sigHead = [c \in Clients |-> ""]
    /\ txn = [c \in Clients |-> NoTxn]
    /\ exec = [c \in Clients |-> NoExec]
    /\ master_replication_offset = 0
    /\ clock = 0
    /\ slave_replication_offset = 0
    /\ master_stream = NoMasterStream

NextList ==
    \E c \in Clients :
        \/ Push_Begin(c) \/ Push_LockBlocked(c) \/ Push_PopWaiter(c) \/ Push_Data(c)
        \/ Push_Signal(c) \/ Push_Reply(c)
        \/ Blpop_Begin(c) \/ Blpop_Check(c) \/ Blpop_LockBlocked(c) \/ Blpop_Register(c)
        \/ Blpop_Wake(c) \/ Blpop_Timeout(c) \/ Blpop_Pop(c)
        \/ Blpop_CancelLock(c) \/ Blpop_Cancel(c)
        \/ Lpop_Run(c) \/ Set_Run(c)
        \/ Repl_Lock(c) \/ Repl_Write(c)

SpecList == InitList /\ [][NextList]_vars

\* ================================================================ SpecTxn
\* The connection loop and the transaction buffer.  The handlers of SET, INCR, LPOP and
\* RPUSH hold the db mutex from their first access to their return, so each runs as one
\* step here; no BLPOP is issued, so the waiter registry stays empty.
TxnClients == {"A", "B"}
QueueableCmds ==
    {<<"SET", "q", "1">>, <<"INCR", "q">>, <<"LPOP", "q", "2">>, <<"RPUSH", "q", "a">>,
     <<"PSYNC", "?", "-1">>}

listVars == <<blocked_clients, dbLock, blockedLock, replicasLock, loc, chan, sigHead>>

\* An i64 is written as a base and an offset from it: "zero" + off, i64::MAX + off
\* (off <= 0) or i64::MIN + off (off >= 0); NoI64 stands for the Err of str::parse::<i64>.
\* MaxSmall is the largest offset from zero whose decimal form the runs are asked about.
MaxSmall == 9
I64Max == "9223372036854775807"
I64Min == "-9223372036854775808"
NoI64 == [base |-> "err", off |-> 0]
I64(base, off) == [base |-> base, off |-> off]
I64Text ==
    [n \in -1..MaxSmall |-> [s |-> ToString(n), v |-> I64("zero", n)]] @@
    ((MaxSmall + 1) :> [s |-> I64Max, v |-> I64("max", 0)]) @@
    ((MaxSmall + 2) :> [s |-> "9223372036854775806", v |-> I64("max", -1)]) @@
    ((MaxSmall + 3) :> [s |-> I64Min, v |-> I64("min", 0)]) @@
    ((MaxSmall + 4) :> [s |-> "-9223372036854775807", v |-> I64("min", 1)]) @@
    ((MaxSmall + 5) :> [s |-> "-9223372036854775806", v |-> I64("min", 2)])
\* String::to_string of the integers the runs reach, str::parse::<i64> its inverse
to_string(v) == I64Text[CHOOSE i \in DOMAIN I64Text : I64Text[i].v = v].s
ParseI64(s) ==
    IF \E i \in DOMAIN I64Text : I64Text[i].s = s
    THEN I64Text[CHOOSE i \in DOMAIN I64Text : I64Text[i].s = s].v
    ELSE NoI64
\* `prev + 1` on i64: None when the sum is not representable
CheckedAddOne(prev) ==
    IF prev = I64("max", 0) THEN NoI64 ELSE I64(prev.base, prev.off + 1)
\* ":{val}\r\n": an integer reply, kept as text when val is out of the small range
RIntOf(val) ==
    IF ParseI64(val).base = "zero" THEN RInt(ParseI64(val).off)
    ELSE [RInt(0) EXCEPT !.s = val]

\* storage.rs 27-30 and server.rs 129-132, with the state of the socket: the frames the
\* replica has been sent (recv), the frames it has sent on the link (inbox) and whether
\* a write to the link now fails (closed)
ReplicaInfo(c) == [stream |-> c, offset |-> 0, recv |-> <<>>, inbox |-> <<>>, closed |-> FALSE]
\* what a handler leaves: the db, the replica links, the bytes written to the client,
\* whether it panicked and whether it returned Err
Result(d, rs, out, panic) ==
    [db |-> d, replicas |-> rs, out |-> out, panic |-> panic, err |-> FALSE]
\* a handler that replied `out` and then ran the write loop over the replicas
Written(d, rs, frame, out) ==
    [db |-> d, replicas |-> WriteToReplicas(rs, frame), out |-> out, panic |-> FALSE,
     err |-> WriteFails(rs)]

\* string.rs 15-22: `PX ms` in any case of the letters gives Some(now + ms); a missing or
\* unparseable ms gives None
SetExpiry(args, now) ==
    IF Len(args) > 2 /\ args[3] \in {"PX", "px", "Px", "pX"} /\ Len(args) >= 4
                     /\ ParseNat(args[4]) # -1
    THEN <<now + ParseNat(args[4])>>
    ELSE NoExpiry

\* string.rs 7-42, with `now` the Instant::now() of line 19
handle_set_at(d, rs, args, now) ==
    IF Len(args) >= 2
    THEN Written([d EXCEPT ![args[1]] =
                     [StringVal(args[2]) EXCEPT !.expires_at = SetExpiry(args, now)]],
                 rs, <<"SET">> \o args, <<RSimple("OK")>>)
    ELSE Result(d, rs, <<ArityErr("set")>>, FALSE)

\* SET without the PX option never reads the clock
handle_set(d, rs, args) == handle_set_at(d, rs, args, 0)

\* string.rs 79-129: only the branch that creates the key propagates.  `prev + 1`
\* (string.rs 97) on i64::MAX panics in a build with overflow checks and wraps around to
\* i64::MIN in a build without them.
handle_incr_built(d, rs, args, overflow_checks) ==
    IF Len(args) < 1 THEN Result(d, rs, <<ArityErr("incr")>>, FALSE)
    ELSE LET key == args[1] IN
         IF d[key].type = "none"
         THEN Written([d EXCEPT ![key] = StringVal("1")], rs, <<"INCR">> \o args,
                      <<RInt(1)>>)
         ELSE IF d[key].type = "string" /\ ParseI64(d[key].str) # NoI64
         THEN LET sum == CheckedAddOne(ParseI64(d[key].str))
                  val == IF sum = NoI64 THEN I64Min ELSE to_string(sum)
              IN  IF sum = NoI64 /\ overflow_checks THEN Result(d, rs, <<>>, TRUE)
                  ELSE Result([d EXCEPT ![key].str = val], rs, <<RIntOf(val)>>, FALSE)
         ELSE Result(d, rs, <<range_err>>, FALSE)

\* the handler on the values of SpecTxn and SpecRepl, which stay far from i64::MAX
handle_incr(d, rs, args) == handle_incr_built(d, rs, args, TRUE)

\* list.rs 177-221
handle_lpop(d, rs, args) ==
    IF Len(args) < 1 THEN Result(d, rs, <<ArityErr("lpop")>>, FALSE)
    ELSE LET key == args[1]
             r == LpopEntry(d[key], args)
         IN  IF d[key].type = "none" THEN Result(d, rs, <<RNil>>, FALSE)
             ELSE IF r.panic THEN Result([d EXCEPT ![key] = r.value], rs, <<>>, TRUE)
             ELSE Written([d EXCEPT ![key] = r.value], rs, <<"LPOP">> \o args, r.reply)

\* list.rs 12-81 with no waiter registered on the key
handle_lpush_rpush(command, d, rs, args) ==
    IF Len(args) < 2 THEN Result(d, rs, <<ArityErr("")>>, FALSE)
    ELSE LET key == args[1]
             entry == IF d[key].type = "none" THEN ListVal(<<>>) ELSE d[key]
         IN  IF entry.type = "list"
             THEN LET list == PushAll(command, entry.list, Tail(args)) IN
                  Written([d EXCEPT ![key] = ListVal(list)], rs, <<command>> \o args,
                          <<RInt(Len(list))>>)
             ELSE Result(d, rs, <<type_err>>, FALSE)

\* AppState.master_replication_id (storage.rs 37), a string fixed at start-up
master_replication_id == "<replid>"
\* replication.rs 56-65: `$<len>\r\n` and the bytes of the empty RDB file, with no \r\n
\* after them
RSnapshot == [kind |-> "snapshot", n |-> 0, s |-> "empty_rdb", arr |-> <<>>, sub |-> <<>>]

\* replication.rs 36-66, with `off` the master_replication_offset read at line 52: the
\* FULLRESYNC line, then the snapshot
handle_psync_at(d, rs, args, off) ==
    IF Len(args) < 2 THEN Result(d, rs, <<ArityErr("psync")>>, FALSE)
    ELSE Result(d, rs,
                <<RSimple("FULLRESYNC " \o master_replication_id \o " " \o ToString(off)),
                  RSnapshot>>, FALSE)

\* PSYNC on a master whose offset is still 0
handle_psync(d, rs, args) == handle_psync_at(d, rs, args, 0)

\* server.rs 139-143: what the connection loop writes before it returns, when the
\* handler returned Err
server_err == RError("ERR server error")

\* commands/mod.rs 32-61, for a command that is not queued
Dispatch(parsed, d, rs) ==
    LET command == parsed[1]
        args == Tail(parsed)
    IN  CASE command = "SET" -> handle_set(d, rs, args)
          [] command = "INCR" -> handle_incr(d, rs, args)
          [] command = "LPOP" -> handle_lpop(d, rs, args)
          [] command \in {"LPUSH", "RPUSH"} -> handle_lpush_rpush(command, d, rs, args)
          [] command = "PSYNC" -> handle_psync(d, rs, args)
          [] OTHER -> Result(d, rs, <<RError("ERR unknown command")>>, FALSE)

\* server.rs 127-137: after any Ok result of a frame whose first word is PSYNC the
\* socket is moved into the replica list and the connection loop returns
Promote(rs, c, parsed) == IF parsed[1] = "PSYNC" THEN Append(rs, ReplicaInfo(c)) ELSE rs
AfterOk(parsed) == IF parsed[1] = "PSYNC" THEN "replica" ELSE "idle"

\* transaction.rs 6-14
handle_multi(t) ==
    [txn |-> [in_transaction |-> TRUE, queued_commands |-> <<>>], out |-> <<RSimple("OK")>>]

\* mutant of handle_discard: leaves the queued commands in the buffer
handle_discard_KeepsQueue(t) ==
    IF ~t.in_transaction
    THEN [txn |-> t, out |-> <<RError("ERR DISCARD without MULTI")>>]
    ELSE [txn |-> [t EXCEPT !.in_transaction = FALSE], out |-> <<RSimple("OK")>>]

\* transaction.rs 59-71
handle_discard(t) ==
    IF ~t.in_transaction
    THEN [txn |-> t, out |-> <<RError("ERR DISCARD without MULTI")>>]
    ELSE [txn |-> [in_transaction |-> FALSE, queued_commands |-> <<>>],
          out |-> <<RSimple("OK")>>]

\* mutant of ExecBegin: no check that a MULTI is open
ExecBegin_Unchecked(t) ==
    IF t.queued_commands = <<>>
    THEN [txn |-> [t EXCEPT !.in_transaction = FALSE], out |-> <<RArrayLen(0)>>,
          todo |-> <<>>]
    ELSE [txn |-> [in_transaction |-> FALSE, queued_commands |-> <<>>], out |-> <<>>,
          todo |-> t.queued_commands]

\* transaction.rs 21-35: the two early returns, else the queue is cloned and cleared
ExecBegin(t) ==
    IF ~t.in_transaction
    THEN [txn |-> t, out |-> <<RError("ERR EXEC without MULTI")>>, todo |-> <<>>]
    ELSE IF t.queued_commands = <<>>
    THEN [txn |-> [t EXCEPT !.in_transaction = FALSE], out |-> <<RArrayLen(0)>>,
          todo |-> <<>>]
    ELSE [txn |-> [in_transaction |-> FALSE, queued_commands |-> <<>>], out |-> <<>>,
          todo |-> t.queued_commands]

\* server.rs 117-125: the next frame of a connection is parsed and handed to handle_command
Receives(c) == c \in TxnClients /\ CanStart(c) /\ issued < MaxTxnCmds

\* commands/mod.rs 22-30, then server.rs 127-137
Txn_Queue(c) ==
    /\ Receives(c) /\ txn[c].in_transaction
    /\ Len(txn[c].queued_commands) < MaxQueue
    /\ \E parsed \in QueueableCmds :
        /\ cmd' = [cmd EXCEPT ![c] = parsed]
        /\ txn' = [txn EXCEPT ![c].queued_commands = Append(@, parsed)]
        /\ replicas' = Promote(replicas, c, parsed)
        /\ pc' = [pc EXCEPT ![c] = AfterOk(parsed)]
    /\ reply' = [reply EXCEPT ![c] = <<RSimple("QUEUED")>>]
    /\ issued' = issued + 1
    /\ UNCHANGED <<db, exec, listVars, master_replication_offset, restVars>>

\* commands/mod.rs 32-61 outside a transaction, then server.rs 127-137; a panic of the
\* handler ends the connection task
Txn_Direct(c) ==
    /\ Receives(c) /\ ~txn[c].in_transaction
    /\ \E parsed \in QueueableCmds :
        LET r == Dispatch(parsed, db, replicas) IN
        /\ cmd' = [cmd EXCEPT ![c] = parsed]
        /\ db' = r.db
        /\ reply' = [reply EXCEPT ![c] = r.out]
        /\ replicas' = IF r.panic THEN r.replicas ELSE Promote(r.replicas, c, parsed)
        /\ pc' = [pc EXCEPT ![c] = IF r.panic THEN "dead" ELSE AfterOk(parsed)]
    /\ issued' = issued + 1
    /\ UNCHANGED <<txn, exec, listVars, master_replication_offset, restVars>>

\* commands/mod.rs 48
Txn_Multi(c) ==
    /\ Receives(c)
    /\ LET r == handle_multi(txn[c]) IN
        /\ txn' = [txn EXCEPT ![c] = r.txn]
        /\ reply' = [reply EXCEPT ![c] = r.out]
    /\ cmd' = [cmd EXCEPT ![c] = <<"MULTI">>]
    /\ pc' = [pc EXCEPT ![c] = "idle"]
    /\ issued' = issued + 1
    /\ UNCHANGED <<db, replicas, exec, listVars, master_replication_offset, restVars>>

\* commands/mod.rs 50
Txn_Discard(c) ==
    /\ Receives(c)
    /\ LET r == handle_discard(txn[c]) IN
        /\ txn' = [txn EXCEPT ![c] = r.txn]
        /\ reply' = [reply EXCEPT ![c] = r.out]
    /\ cmd' = [cmd EXCEPT ![c] = <<"DISCARD">>]
    /\ pc' = [pc EXCEPT ![c] = "idle"]
    /\ issued' = issued + 1
    /\ UNCHANGED <<db, replicas, exec, listVars, master_replication_offset, restVars>>

\* commands/mod.rs 49 and transaction.rs 21-35
Txn_Exec(c) ==
    /\ Receives(c)
    /\ LET r == ExecBegin(txn[c]) IN
        /\ txn' = [txn EXCEPT ![c] = r.txn]
        /\ reply' = [reply EXCEPT ![c] = r.out]
        /\ IF r.todo = <<>>
           THEN /\ pc' = [pc EXCEPT ![c] = "idle"]
                /\ UNCHANGED exec
           ELSE /\ pc' = [pc EXCEPT ![c] = "exec"]
                /\ exec' = [exec EXCEPT ![c] =
                               [state |-> "running", todo |-> r.todo, n |-> Len(r.todo),
                                response |-> <<RArrayLen(Len(r.todo))>>]]
    /\ cmd' = [cmd EXCEPT ![c] = <<"EXEC">>]
    /\ issued' = issued + 1
    /\ UNCHANGED <<db, replicas, listVars, master_replication_offset, restVars>>

\* transaction.rs 37-56: one queued command runs through handle_command into the duplex
\* pipe and its bytes are appended to the response; after the last one the response is
\* written to the client.  A panic of the queued command's handler unwinds handle_exec.
Exec_Step(c) ==
    /\ pc[c] = "exec" /\ exec[c].todo # <<>>
    /\ LET r == Dispatch(Head(exec[c].todo), db, replicas)
           response == exec[c].response \o r.out
       IN  /\ db' = r.db
           /\ replicas' = r.replicas
           /\ IF r.panic
              THEN /\ pc' = [pc EXCEPT ![c] = "dead"]
                   /\ exec' = [exec EXCEPT ![c] = NoExec]
                   /\ UNCHANGED reply
              ELSE IF Tail(exec[c].todo) = <<>>
              THEN /\ pc' = [pc EXCEPT ![c] = "idle"]
                   /\ exec' = [exec EXCEPT ![c] = NoExec]
                   /\ reply' = [reply EXCEPT ![c] = response]
              ELSE /\ exec' = [exec EXCEPT ![c].todo = Tail(@), ![c].response = response]
                   /\ UNCHANGED <<pc, reply>>
    /\ UNCHANGED <<cmd, issued, txn, listVars, master_replication_offset, restVars>>

InitTxn == InitList

NextTxn ==
    \E c \in TxnClients :
        \/ Txn_Queue(c) \/ Txn_Direct(c) \/ Txn_Multi(c) \/ Txn_Discard(c)
        \/ Txn_Exec(c) \/ Exec_Step(c)

SpecTxn == InitTxn /\ [][NextTxn]_vars

\* ================================================================ streams
\* Stream ids are Strings, as in storage.rs 22-25; the entries of a stream are kept as
\* the sequence in which BTreeMap<String, _> iterates them (String order, byte by byte).
MaxNum == 12    \* largest number whose decimal form the parsers are asked about

\* format!("{}", n) is TLC's ToString on naturals; str::parse its inverse, Err shown as -1
Numerals == [n \in 0..MaxNum |-> ToString(n)]
\* decimal forms with a leading zero, which str::parse accepts: "00", "01", ..
MaxPad == 1
Padded == [n \in 0..MaxPad |-> "0" \o ToString(n)]
Parsed == [str \in {Numerals[n] : n \in 0..MaxNum} \cup {Padded[n] : n \in 0..MaxPad} |->
              CHOOSE n \in 0..MaxNum :
                    Numerals[n] = str \/ (n <= MaxPad /\ Padded[n] = str)]
ParseU(str) == IF str \in DOMAIN Parsed THEN Parsed[str] ELSE -1
UnwrapOr0(n) == IF n = -1 THEN 0 ELSE n

\* the words that occur around the '-' of the ids the inputs use
IdParts == {Numerals[n] : n \in 0..MaxNum} \cup {Padded[n] : n \in 0..MaxPad} \cup {"*"}
Joined == [p \in IdParts \X IdParts |-> p[1] \o "-" \o p[2]]

\* id.split('-').collect(): the parts of the string
Parts == [str \in {Joined[p] : p \in DOMAIN Joined} |->
             CHOOSE p \in DOMAIN Joined : Joined[p] = str]
Split(id) == IF id \in DOMAIN Parts THEN Parts[id] ELSE <<id>>

\* the bytes of a String: '$' 36, '+' 43, '-' 45, '0'..'9' 48..57
RECURSIVE DigitBytes(_)
DigitBytes(n) == IF n < 10 THEN <<48 + n>> ELSE DigitBytes(n \div 10) \o <<48 + (n % 10)>>
PartBytes(part) ==
    IF part = "*" THEN <<42>>
    ELSE IF part \in {Padded[n] : n \in 0..MaxPad} THEN <<48>> \o DigitBytes(ParseU(part))
    ELSE DigitBytes(ParseU(part))
Bytes(str) ==
    LET p == Split(str) IN
    CASE str = "$" -> <<36>>
      [] str = "+" -> <<43>>
      [] str = "-" -> <<45>>
      [] Len(p) = 2 -> PartBytes(p[1]) \o <<45>> \o PartBytes(p[2])
      [] OTHER -> PartBytes(str)

\* Ord for String: lexicographic on the bytes, a proper prefix first
RECURSIVE BytesLess(_, _)
BytesLess(a, b) ==
    IF b = <<>> THEN FALSE
    ELSE IF a = <<>> THEN TRUE
    ELSE IF Head(a) # Head(b) THEN Head(a) < Head(b)
    ELSE BytesLess(Tail(a), Tail(b))
StrLess(a, b) == BytesLess(Bytes(a), Bytes(b))

\* BTreeMap::insert: the entry goes to its place in String order, replacing an equal key
BTreeInsert(entries, id, fields) ==
    LET before == SelectSeq(entries, LAMBDA e : StrLess(e.id, id))
        after == SelectSeq(entries, LAMBDA e : StrLess(id, e.id))
    IN  before \o <<[id |-> id, fields |-> fields]>> \o after

\* stream.rs 58-67: the field map, or Err for a field without a value
RECURSIVE FieldMap(_)
FieldMap(rest) ==
    IF rest = <<>> THEN [ok |-> TRUE, fields |-> <<>>]
    ELSE IF Len(rest) = 1 THEN [ok |-> FALSE, fields |-> <<>>]
    ELSE LET more == FieldMap(Tail(Tail(rest)))
             later == {more.fields[i][1] : i \in DOMAIN more.fields}
         IN  [ok |-> more.ok,
              fields |-> IF rest[1] \in later THEN more.fields
                         ELSE <<<<rest[1], rest[2]>>>> \o more.fields]

\* protocol.rs 56-62: the byte length of serialize_resp_array(items)
RECURSIVE BulkLen(_)
BulkLen(items) ==
    IF items = <<>> THEN 0
    ELSE 1 + Len(ToString(Len(Head(items)))) + 2 + Len(Head(items)) + 2 + BulkLen(Tail(items))
SerializedLen(items) == 1 + Len(ToString(Len(items))) + 2 + BulkLen(items)

\* protocol.rs 64-88: write the frame to every replica; the offset grows only when there
\* is at least one replica and no write failed
replicate_command(rs, off, frame) ==
    [replicas |-> WriteToReplicas(rs, frame),
     offset |-> IF rs # <<>> /\ ~WriteFails(rs) THEN off + SerializedLen(frame) ELSE off,
     err |-> WriteFails(rs)]

top_item_err ==
    RError("ERR The ID specified in XADD is equal or smaller than the target stream top item")
zero_id_err == RError("ERR The ID specified in XADD must be greater than 0-0")
EmptyStream == [entries |-> <<>>, last_id |-> "0-0"]
XaddResult(d, rs, off, out, notify) ==
    [db |-> d, replicas |-> rs, offset |-> off, out |-> out, notify |-> notify,
     panic |-> FALSE, err |-> FALSE]

\* stream.rs 69-108: the (timestamp, sequence) an id argument stands for, given the
\* stream's last_id and the wall clock
XaddId(last_id, id, now) ==
    LET last == Split(last_id)
        last_seq == UnwrapOr0(ParseU(last[2]))
        cur_id == Split(id)
    IN  IF id = "*" THEN [ok |-> TRUE, ms |-> now, seq |-> 0]
        ELSE IF Len(cur_id) # 2 THEN [ok |-> FALSE, ms |-> 0, seq |-> 0]
        ELSE [ok |-> TRUE,
              ms |-> UnwrapOr0(ParseU(cur_id[1])),
              seq |-> IF cur_id[2] = "*"
                      THEN (IF cur_id[1] = last[1] THEN last_seq + 1 ELSE 0)
                      ELSE UnwrapOr0(ParseU(cur_id[2]))]

\* mutant of NotAboveTop: only the timestamps are compared
NotAboveTop_TimestampOnly(ms, seq, last_timestamp, last_seq) == ms < last_timestamp

\* stream.rs 116-117
NotAboveTop(ms, seq, last_timestamp, last_seq) ==
    ms < last_timestamp \/ (ms = last_timestamp /\ seq <= last_seq)

\* mutant of XaddInsert: the entry is stored and last_id keeps its old value
XaddInsert_KeepsLastId(st, calc_id, fields) ==
    [entries |-> BTreeInsert(st.entries, calc_id, fields), last_id |-> st.last_id]

\* stream.rs 124-125
XaddInsert(st, calc_id, fields) ==
    [entries |-> BTreeInsert(st.entries, calc_id, fields), last_id |-> calc_id]

\* stream.rs 36-137; the db guard is held from line 48 to the return
handle_xadd(d, rs, off, args, now) ==
    IF Len(args) < 2
    THEN XaddResult(d, rs, off, <<ArityErr("stream")>>, FALSE)
    ELSE
    LET key == args[1]
        id == args[2]
        entry == IF d[key].type = "none" THEN StreamVal(EmptyStream) ELSE d[key]
        d1 == [d EXCEPT ![key] = entry]
        fm == FieldMap(SubSeq(args, 3, Len(args)))
        last == Split(entry.stream.last_id)
        last_timestamp == UnwrapOr0(ParseU(last[1]))
        last_seq == UnwrapOr0(ParseU(last[2]))
        cur == XaddId(entry.stream.last_id, id, now)
        calc_id == ToString(cur.ms) \o "-" \o ToString(cur.seq)
        sent == replicate_command(rs, off, <<"XADD">> \o args)
    IN  IF entry.type # "stream"
        THEN [XaddResult(d1, sent.replicas, sent.offset, <<>>, FALSE) EXCEPT !.err = sent.err]
        ELSE IF ~fm.ok
        THEN XaddResult(d1, rs, off, <<ArityErr("xadd")>>, FALSE)
        ELSE IF ~cur.ok
        THEN XaddResult(d1, rs, off,
                 <<RError("ERR Invalid stream ID specified as stream command argument")>>,
                 FALSE)
        ELSE IF cur.seq = 0 /\ cur.ms = 0
        THEN XaddResult(d1, rs, off, <<zero_id_err>>, FALSE)
        ELSE IF NotAboveTop(cur.ms, cur.seq, last_timestamp, last_seq)
        THEN XaddResult(d1, rs, off, <<top_item_err>>, FALSE)
        ELSE [XaddResult([d EXCEPT ![key] =
                             StreamVal(XaddInsert(entry.stream, calc_id, fm.fields))],
                         sent.replicas, sent.offset, <<RBulk(calc_id)>>, TRUE)
              EXCEPT !.err = sent.err]

\* the reply of XRANGE: an array of [id, fields] entries
REntries(es) == [kind |-> "entries", n |-> Len(es), s |-> "", arr |-> <<>>, sub |-> es]
\* the reply of XREAD: an array of [key, entries] results
RStreams(rs) == [kind |-> "streams", n |-> Len(rs), s |-> "", arr |-> <<>>, sub |-> rs]

\* str::contains("-") for the range arguments the inputs use
ContainsDash(str) == str = "-" \/ Len(Split(str)) = 2

\* stream.rs 139-189; BTreeMap::range panics when its start is greater than its end
handle_xrange(d, args) ==
    IF Len(args) < 3 THEN [out |-> <<ArityErr("xrange")>>, panic |-> FALSE]
    ELSE
    LET key == args[1]
        start == IF ~ContainsDash(args[2]) THEN args[2] \o "-0" ELSE args[2]
        end == IF ~ContainsDash(args[3]) /\ args[3] # "+" THEN args[3] \o "-0" ELSE args[3]
        InRange(e) == /\ ~StrLess(e.id, start)
                      /\ end = "+" \/ ~StrLess(end, e.id)
    IN  IF d[key].type = "none" THEN [out |-> <<RNil>>, panic |-> FALSE]
        ELSE IF d[key].type # "stream" THEN [out |-> <<type_err>>, panic |-> FALSE]
        ELSE IF end # "+" /\ StrLess(end, start) THEN [out |-> <<>>, panic |-> TRUE]
        ELSE [out |-> <<REntries(SelectSeq(d[key].stream.entries, InRange))>>,
              panic |-> FALSE]

\* stream.rs 197-204: (no_of_keys, start_idx, timeout_ms, is_blocking)
XreadShape(args) ==
    IF args[1] = "BLOCK"
    THEN [no_of_keys |-> (Len(args) - 3) \div 2, start_idx |-> 3,
          timeout_ms |-> UnwrapOr0(ParseU(args[2])), is_blocking |-> TRUE]
    ELSE [no_of_keys |-> (Len(args) - 1) \div 2, start_idx |-> 1, timeout_ms |-> 0,
          is_blocking |-> FALSE]

\* stream.rs 241-257: every `$` becomes the last_id of its stream, when the key holds one
RECURSIVE ResolveIds(_, _, _, _)
ResolveIds(d, args, sh, i) ==
    IF i >= sh.no_of_keys THEN args
    ELSE LET key == args[i + sh.start_idx + 1]
             at == Len(args) - sh.no_of_keys + i + 1
             id == IF d[key].type = "stream" /\ args[at] = "$"
                   THEN d[key].stream.last_id ELSE args[at]
         IN  ResolveIds(d, [args EXCEPT ![at] = id], sh, i + 1)

\* stream.rs 206-239: for each key the entries after Excluded(id) in String order
RECURSIVE check_for_data(_, _, _, _)
check_for_data(d, args, sh, i) ==
    IF i >= sh.no_of_keys THEN <<>>
    ELSE LET key == args[i + sh.start_idx + 1]
             id == args[Len(args) - sh.no_of_keys + i + 1]
             entries == IF d[key].type = "stream"
                        THEN SelectSeq(d[key].stream.entries, LAMBDA e : StrLess(id, e.id))
                        ELSE <<>>
         IN  (IF entries # <<>> THEN <<[key |-> key, entries |-> entries]>> ELSE <<>>)
                 \o check_for_data(d, args, sh, i + 1)

\* ================================================================ SpecStream
\* XADD, XRANGE and XREAD [BLOCK] on a master without replicas.  XADD and XRANGE hold
\* the db mutex for their whole body and run as one step; XREAD is split at its
\* acquisitions of the db mutex and at its awaits on the broadcast receiver, whose
\* state is chan[c].st: "none" not subscribed, "open" subscribed, "sent" a message waits.
StreamClients == {"A", "B"}
XaddCmds ==
    {<<"XADD", "q", "9-0", "f", "a">>, <<"XADD", "q", "10-0", "f", "b">>,
     <<"XADD", "q", "1-*", "f", "a">>, <<"XADD", "q", "*", "f", "a">>,
     <<"XADD", "q", "0-0", "f", "a">>, <<"XADD", "r", "1-1", "f", "a">>,
     <<"XADD", "q", "01-*", "f", "a">>}
XrangeCmds == {<<"XRANGE", "q", "-", "+">>}
XreadCmds ==
    {<<"XREAD", "BLOCK", "0", "STREAMS", "q", "$">>,
     <<"XREAD", "BLOCK", "1", "STREAMS", "q", "$">>,
     <<"XREAD", "STREAMS", "q", "9-0">>}
\* SystemTime::now() in milliseconds
NowValues == {1, 10}

otherVars ==
    <<blocked_clients, dbLock, blockedLock, replicasLock, sigHead, txn, exec, restVars>>

StreamReceives(c) == c \in StreamClients /\ CanStart(c) /\ issued < MaxStreamCmds

\* tokio::sync::broadcast::Sender::send: every receiver subscribed now gets the message
Notify(ch) == [d \in DOMAIN ch |-> IF ch[d].st = "open" THEN [ch[d] EXCEPT !.st = "sent"]
                                   ELSE ch[d]]

\* stream.rs 36-137
Xadd_Run(c) ==
    /\ StreamReceives(c)
    /\ \E parsed \in XaddCmds, now \in NowValues :
        LET r == handle_xadd(db, replicas, master_replication_offset, Tail(parsed), now) IN
        /\ cmd' = [cmd EXCEPT ![c] = parsed]
        /\ loc' = [loc EXCEPT ![c] = [NoLoc EXCEPT !.now = IF parsed[3] = "*" THEN now ELSE 0]]
        /\ db' = r.db
        /\ replicas' = r.replicas
        /\ master_replication_offset' = r.offset
        /\ reply' = [reply EXCEPT ![c] = r.out]
        /\ chan' = IF r.notify THEN Notify(chan) ELSE chan
    /\ pc' = [pc EXCEPT ![c] = "idle"]
    /\ issued' = issued + 1
    /\ UNCHANGED otherVars

\* stream.rs 139-189
Xrange_Run(c) ==
    /\ StreamReceives(c)
    /\ \E parsed \in XrangeCmds :
        LET r == handle_xrange(db, Tail(parsed)) IN
        /\ cmd' = [cmd EXCEPT ![c] = parsed]
        /\ reply' = [reply EXCEPT ![c] = r.out]
        /\ pc' = [pc EXCEPT ![c] = IF r.panic THEN "dead" ELSE "idle"]
    /\ loc' = [loc EXCEPT ![c] = NoLoc]
    /\ issued' = issued + 1
    /\ UNCHANGED <<db, replicas, chan, master_replication_offset, otherVars>>

\* stream.rs 197-257: the shape of the call and the resolution of `$` (one acquisition
\* of the db mutex per key; the inputs name one key)
Xread_Begin(c) ==
    /\ StreamReceives(c)
    /\ \E parsed \in XreadCmds :
        LET args == Tail(parsed)
            sh == XreadShape(args)
        IN  /\ cmd' = [cmd EXCEPT ![c] = parsed]
            /\ loc' = [loc EXCEPT ![c] =
                          [NoLoc EXCEPT !.frame = ResolveIds(db, args, sh, 0),
                                        !.timeout = sh.timeout_ms]]
    /\ reply' = [reply EXCEPT ![c] = <<>>]
    /\ pc' = [pc EXCEPT ![c] = "xr_check"]
    /\ issued' = issued + 1
    /\ UNCHANGED <<db, replicas, chan, master_replication_offset, otherVars>>

\* stream.rs 260-263 and 293-320: the fast path
Xread_Check(c) ==
    /\ pc[c] = "xr_check"
    /\ LET sh == XreadShape(Tail(cmd[c]))
           final_results == check_for_data(db, loc[c].frame, sh, 0)
       IN  IF final_results # <<>>
           THEN /\ reply' = [reply EXCEPT ![c] = <<RStreams(final_results)>>]
                /\ pc' = [pc EXCEPT ![c] = "idle"]
           ELSE IF sh.is_blocking
           THEN /\ pc' = [pc EXCEPT ![c] = "xr_subscribe"]
                /\ UNCHANGED reply
           ELSE /\ reply' = [reply EXCEPT ![c] = <<RNil>>]
                /\ pc' = [pc EXCEPT ![c] = "idle"]
    /\ UNCHANGED <<db, replicas, cmd, loc, chan, issued, master_replication_offset,
                   otherVars>>

\* stream.rs 264
Xread_Subscribe(c) ==
    /\ pc[c] = "xr_subscribe"
    /\ chan' = [chan EXCEPT ![c].st = "open"]
    /\ pc' = [pc EXCEPT ![c] = "xr_wait"]
    /\ UNCHANGED <<db, replicas, cmd, loc, reply, issued, master_replication_offset,
                   otherVars>>

\* stream.rs 268-271 and 275-283: a message arrives and the db is queried again; a timed
\* XREAD answers with whatever that one query finds, an untimed one goes back to waiting
Xread_Recheck(c) ==
    /\ pc[c] = "xr_wait" /\ chan[c].st = "sent"
    /\ LET sh == XreadShape(Tail(cmd[c]))
           final_results == check_for_data(db, loc[c].frame, sh, 0)
       IN  IF final_results # <<>>
           THEN /\ reply' = [reply EXCEPT ![c] = <<RStreams(final_results)>>]
                /\ chan' = [chan EXCEPT ![c].st = "none"]
                /\ pc' = [pc EXCEPT ![c] = "idle"]
           ELSE IF loc[c].timeout > 0
           THEN /\ reply' = [reply EXCEPT ![c] = <<RNil>>]
                /\ chan' = [chan EXCEPT ![c].st = "none"]
                /\ pc' = [pc EXCEPT ![c] = "idle"]
           ELSE /\ chan' = [chan EXCEPT ![c].st = "open"]
                /\ UNCHANGED <<reply, pc>>
    /\ UNCHANGED <<db, replicas, cmd, loc, issued, master_replication_offset, otherVars>>

\* stream.rs 268 and 317-320: the timeout elapses before any message
Xread_Timeout(c) ==
    /\ pc[c] = "xr_wait" /\ chan[c].st = "open" /\ loc[c].timeout > 0
    /\ reply' = [reply EXCEPT ![c] = <<RNil>>]
    /\ chan' = [chan EXCEPT ![c].st = "none"]
    /\ pc' = [pc EXCEPT ![c] = "idle"]
    /\ UNCHANGED <<db, replicas, cmd, loc, issued, master_replication_offset, otherVars>>

InitStream == InitList

NextStream ==
    \E c \in StreamClients :
        \/ Xadd_Run(c) \/ Xrange_Run(c)
        \/ Xread_Begin(c) \/ Xread_Check(c) \/ Xread_Subscribe(c)
        \/ Xread_Recheck(c) \/ Xread_Timeout(c)

SpecStream == InitStream /\ [][NextStream]_vars

\* ================================================================ SpecRepl
\* A master, one connection that sends commands and two that send PSYNC and become
\* replicas.  SET, INCR, RPUSH, LPOP, XADD, GET and INFO run as one step each; BLPOP runs
\* by the steps of SpecList; WAIT is split at the sleeps of its loop.
MaxReplCmds == 3
\* rounds of the loop of handle_wait that are followed
MaxGetacks == 2
\* REPLCONF ACK frames a replica sends
MaxAcks == 1
ReplKeys == Keys \cup {"a"}
Commander == "A"
ReplicaConns == {"B", "C"}
ReplWriteCmds ==
    {<<"SET", "a", "b">>, <<"SET", "q", "1">>, <<"INCR", "q">>, <<"RPUSH", "q", "a">>,
     <<"LPOP", "q">>}
ReplXaddCmds == {<<"XADD", "q", "1-1", "f", "a">>, <<"XADD", "q", "0-0", "f", "a">>}
ReplReadCmds == {<<"INFO", "replication">>, <<"GET", "q">>, <<"XRANGE", "q", "-", "+">>}
WaitCmds == {<<"WAIT", "1", "1">>, <<"WAIT", "0", "1">>}
GetAck == <<"REPLCONF", "GETACK", "*">>

\* string.rs 55: entry.expires_at.map_or(false, |e| Instant::now() > e)
\* mutant of Expired: no entry ever counts as expired
Expired_Never(expires_at, now) == FALSE
Expired(expires_at, now) == expires_at # NoExpiry /\ now > expires_at[1]

\* string.rs 44-77, with `now` the Instant::now() of line 55: an expired entry is
\* removed and answered with the null bulk string
handle_get_at(d, args, now) ==
    IF Len(args) < 1 THEN [db |-> d, out |-> <<ArityErr("get")>>]
    ELSE LET key == args[1] IN
         IF d[key].type = "none" THEN [db |-> d, out |-> <<RNil>>]
         ELSE IF Expired(d[key].expires_at, now)
         THEN [db |-> [d EXCEPT ![key] = Absent], out |-> <<RNil>>]
         ELSE IF d[key].type = "string" THEN [db |-> d, out |-> <<RBulk(d[key].str)>>]
         ELSE [db |-> d, out |-> <<type_err>>]

\* GET of entries that carry no expiry: the clock is not consulted and db is not changed
handle_get(d, args) == handle_get_at(d, args, 0).out

\* general.rs 23-47: the third line of the reply; the role and replid lines are constant
handle_info(off) == <<RBulk("master_repl_offset:" \o ToString(off))>>

ReplReceives(c) == c = Commander /\ CanStart(c) /\ issued < MaxReplCmds

\* server.rs 113-137 with replication.rs 36-66: PSYNC and the move into the replica list
Master_Psync(c) ==
    /\ c \in ReplicaConns /\ pc[c] = "new"
    /\ \A i, j \in DOMAIN ClientOrder :
            (ClientOrder[j] = c /\ i < j /\ ClientOrder[i] \in ReplicaConns) =>
                pc[ClientOrder[i]] # "new"
    /\ LET parsed == <<"PSYNC", "?", "-1">>
           r == handle_psync_at(db, replicas, Tail(parsed), master_replication_offset)
       IN  /\ cmd' = [cmd EXCEPT ![c] = parsed]
           /\ reply' = [reply EXCEPT ![c] = r.out]
           /\ replicas' = Promote(r.replicas, c, parsed)
           /\ pc' = [pc EXCEPT ![c] = AfterOk(parsed)]
    /\ UNCHANGED <<db, loc, chan, issued, master_replication_offset, otherVars>>

\* server.rs 126-143: the connection after the handler has returned or panicked, and the
\* bytes the client has been written
AfterHandler(r) == IF r.panic THEN "dead" ELSE IF r.err THEN "closed" ELSE "idle"
AtClient(r) == IF r.err THEN r.out \o <<server_err>> ELSE r.out

\* string.rs 7-42 and 79-129, list.rs 12-81 and 177-221
Master_Write(c) ==
    /\ ReplReceives(c)
    /\ \E parsed \in ReplWriteCmds :
        LET r == Dispatch(parsed, db, replicas) IN
        /\ cmd' = [cmd EXCEPT ![c] = parsed]
        /\ db' = r.db
        /\ replicas' = r.replicas
        /\ reply' = [reply EXCEPT ![c] = AtClient(r)]
        /\ pc' = [pc EXCEPT ![c] = AfterHandler(r)]
    /\ issued' = issued + 1
    /\ UNCHANGED <<loc, chan, master_replication_offset, otherVars>>

\* stream.rs 36-137
Master_Xadd(c) ==
    /\ ReplReceives(c)
    /\ \E parsed \in ReplXaddCmds, now \in NowValues :
        LET r == handle_xadd(db, replicas, master_replication_offset, Tail(parsed), now) IN
        /\ cmd' = [cmd EXCEPT ![c] = parsed]
        /\ db' = r.db
        /\ replicas' = r.replicas
        /\ master_replication_offset' = r.offset
        /\ reply' = [reply EXCEPT ![c] = AtClient(r)]
        /\ chan' = IF r.notify THEN Notify(chan) ELSE chan
        /\ pc' = [pc EXCEPT ![c] = AfterHandler(r)]
    /\ issued' = issued + 1
    /\ UNCHANGED <<loc, otherVars>>

\* string.rs 44-77, general.rs 23-47 and stream.rs 139-228
Master_Read(c) ==
    /\ ReplReceives(c)
    /\ \E parsed \in ReplReadCmds :
        /\ cmd' = [cmd EXCEPT ![c] = parsed]
        /\ reply' = [reply EXCEPT ![c] =
                        IF parsed[1] = "INFO" THEN handle_info(master_replication_offset)
                        ELSE IF parsed[1] = "XRANGE" THEN handle_xrange(db, Tail(parsed)).out
                        ELSE handle_get(db, Tail(parsed))]
    /\ pc' = [pc EXCEPT ![c] = "idle"]
    /\ issued' = issued + 1
    /\ UNCHANGED <<db, replicas, loc, chan, master_replication_offset, otherVars>>

\* replication.rs 73-118: the arguments, the early replies and the snapshot of the offset.
\* handle_command (commands/mod.rs 32-61) has no arm that calls handle_wait; the handler
\* is run here as it is written, on the arguments of a WAIT frame.
Wait_Begin(c) ==
    /\ ReplReceives(c)
    /\ \E parsed \in WaitCmds :
        LET args == Tail(parsed)
            master_offset == master_replication_offset
        IN  /\ cmd' = [cmd EXCEPT ![c] = parsed]
            /\ IF Len(args) # 2
               THEN /\ reply' = [reply EXCEPT ![c] = <<ArityErr("wait")>>]
                    /\ pc' = [pc EXCEPT ![c] = "idle"]
                    /\ UNCHANGED loc
               ELSE IF ParseNat(args[1]) = -1 \/ ParseNat(args[2]) = -1
               THEN /\ reply' = [reply EXCEPT ![c] = <<range_err>>]
                    /\ pc' = [pc EXCEPT ![c] = "idle"]
                    /\ UNCHANGED loc
               ELSE IF ParseNat(args[1]) = 0
               THEN /\ reply' = [reply EXCEPT ![c] = <<RInt(0)>>]
                    /\ pc' = [pc EXCEPT ![c] = "idle"]
                    /\ UNCHANGED loc
               ELSE IF master_offset = 0
               THEN /\ reply' = [reply EXCEPT ![c] = <<RInt(Len(replicas))>>]
                    /\ pc' = [pc EXCEPT ![c] = "idle"]
                    /\ UNCHANGED loc
               ELSE /\ reply' = [reply EXCEPT ![c] = <<>>]
                    /\ pc' = [pc EXCEPT ![c] = "wait_getack"]
                    /\ loc' = [loc EXCEPT ![c] =
                                  [NoLoc EXCEPT !.master_offset = master_offset,
                                                !.num_replicas = ParseNat(args[1]),
                                                !.timeout = ParseNat(args[2])]]
    /\ issued' = issued + 1
    /\ UNCHANGED <<db, replicas, chan, master_replication_offset, otherVars>>

\* replication.rs 121-138: one GETACK frame to every replica, then the 20 ms sleep; a
\* failed write returns Err from the handler
Wait_Getack(c) ==
    /\ pc[c] = "wait_getack" /\ loc[c].rounds < MaxGetacks
    /\ replicas' = WriteToReplicas(replicas, GetAck)
    /\ IF WriteFails(replicas)
       THEN /\ loc' = [loc EXCEPT ![c] = NoLoc]
            /\ reply' = [reply EXCEPT ![c] = <<server_err>>]
            /\ pc' = [pc EXCEPT ![c] = "closed"]
       ELSE /\ loc' = [loc EXCEPT ![c].rounds = @ + 1]
            /\ pc' = [pc EXCEPT ![c] = "wait_count"]
            /\ UNCHANGED reply
    /\ UNCHANGED <<db, cmd, chan, issued, master_replication_offset, otherVars>>

\* replication.rs 140-182: count the replicas at or past the snapshot; reply when they
\* are enough or when the timeout has elapsed, else sleep 50 ms and go round again
Wait_Count(c) ==
    /\ pc[c] = "wait_count"
    /\ LET acknowledged_count ==
               Cardinality({i \in DOMAIN replicas : replicas[i].offset >= loc[c].master_offset})
       IN  \E elapsed \in BOOLEAN :
            IF acknowledged_count >= loc[c].num_replicas \/ (loc[c].timeout > 0 /\ elapsed)
            THEN /\ reply' = [reply EXCEPT ![c] = <<RInt(acknowledged_count)>>]
                 /\ pc' = [pc EXCEPT ![c] = "idle"]
                 /\ loc' = [loc EXCEPT ![c] = NoLoc]
            ELSE /\ pc' = [pc EXCEPT ![c] = "wait_getack"]
                 /\ UNCHANGED <<reply, loc>>
    /\ UNCHANGED <<db, replicas, cmd, chan, issued, master_replication_offset, otherVars>>

InitRepl ==
    /\ db = [k \in ReplKeys |-> Absent]
    /\ blocked_clients = <<>>
    /\ replicas = <<>>
    /\ dbLock = NoClient /\ blockedLock = NoClient /\ replicasLock = NoClient
    /\ pc = [c \in Clients |-> "new"]
    /\ cmd = [c \in Clients |-> <<>>]
    /\ loc = [c \in Clients |-> NoLoc]
    /\ chan = [c \in Clients |-> NoChan]
    /\ reply = [c \in Clients |-> <<>>]
    /\ issued = 0
    /\ sigHead = [c \in Clients |-> ""]
    /\ txn = [c \in Clients |-> NoTxn]
    /\ exec = [c \in Clients |-> NoExec]
    /\ master_replication_offset = 0
    /\ clock = 0
    /\ slave_replication_offset = 0
    /\ master_stream = NoMasterStream

\* BLPOP is received under the bound of SpecRepl
Master_Blpop(c) == ReplReceives(c) /\ Blpop_Begin(c)

\* commands/mod.rs 32-61: a WAIT frame as handle_command treats it; no arm names WAIT
Master_Wait(c) ==
    /\ ReplReceives(c)
    /\ \E parsed \in WaitCmds :
        LET r == Dispatch(parsed, db, replicas) IN
        /\ cmd' = [cmd EXCEPT ![c] = parsed]
        /\ reply' = [reply EXCEPT ![c] = r.out]
    /\ loc' = [loc EXCEPT ![c] = [NoLoc EXCEPT !.master_offset = master_replication_offset]]
    /\ pc' = [pc EXCEPT ![c] = "idle"]
    /\ issued' = issued + 1
    /\ UNCHANGED <<db, replicas, chan, master_replication_offset, otherVars>>

\* the peer of a replica link goes away: from now on a write to the link returns Err
Replica_Drop(c) ==
    /\ pc[c] = "replica"
    /\ replicas' = [i \in DOMAIN replicas |->
                        IF replicas[i].stream = c THEN [replicas[i] EXCEPT !.closed = TRUE]
                        ELSE replicas[i]]
    /\ pc' = [pc EXCEPT ![c] = "gone"]
    /\ UNCHANGED <<db, cmd, loc, chan, reply, issued, master_replication_offset, otherVars>>

\* the byte length of the frames a link has carried to the replica
RECURSIVE Received(_)
Received(frames) ==
    IF frames = <<>> THEN 0 ELSE SerializedLen(Head(frames)) + Received(Tail(frames))

\* a replica writes REPLCONF ACK <the bytes it has received> on its link.  The connection
\* loop returned when the link was promoted (server.rs 127-137) and nothing else reads
\* the socket held in the replica list: the frame stays unread
Replica_Ack(c) ==
    /\ pc[c] = "replica"
    /\ \E i \in DOMAIN replicas :
        /\ replicas[i].stream = c
        /\ replicas[i].recv # <<>> /\ Len(replicas[i].inbox) < MaxAcks
        /\ replicas' = [replicas EXCEPT ![i].inbox =
                            Append(@, <<"REPLCONF", "ACK", ToString(Received(replicas[i].recv))>>)]
    /\ UNCHANGED <<db, pc, cmd, loc, chan, reply, issued, master_replication_offset,
                   otherVars>>

NextRepl ==
    \/ \E c \in ReplicaConns : Master_Psync(c) \/ Replica_Drop(c) \/ Replica_Ack(c)
    \/ \E c \in {Commander} :
        \/ Master_Write(c) \/ Master_Xadd(c) \/ Master_Read(c) \/ Master_Wait(c)
        \/ Wait_Begin(c) \/ Wait_Getack(c) \/ Wait_Count(c)
        \/ Master_Blpop(c) \/ Blpop_Check(c) \/ Blpop_LockBlocked(c) \/ Blpop_Register(c)
        \/ Blpop_Timeout(c) \/ Blpop_CancelLock(c) \/ Blpop_Cancel(c)
        \/ Repl_Lock(c) \/ Repl_Write(c)

SpecRepl == InitRepl /\ [][NextRepl]_vars

\* ================================================================ SpecIncr
\* INCR on the values a key can hold: absent, a list, and strings that are or are not
\* the decimal form of an i64, up to i64::MAX.  Each handler holds the db mutex for its
\* whole body and runs as one step.
MaxIncrCmds == 3
IncrClients == {"A", "B"}
IncrValues == {"1", "-1", "9223372036854775806", I64Max, "9223372036854775808", "abc"}
IncrSetCmds == {<<"SET", "q", v>> : v \in IncrValues}
IncrPushCmds == {<<"RPUSH", "q", "a">>}
IncrCmds == {<<"INCR", "q">>}

IncrReceives(c) == c \in IncrClients /\ CanStart(c) /\ issued < MaxIncrCmds

\* string.rs 7-42 and list.rs 12-81
Incr_Prepare(c) ==
    /\ IncrReceives(c)
    /\ \E parsed \in IncrSetCmds \cup IncrPushCmds :
        LET r == Dispatch(parsed, db, replicas) IN
        /\ cmd' = [cmd EXCEPT ![c] = parsed]
        /\ db' = r.db
        /\ replicas' = r.replicas
        /\ reply' = [reply EXCEPT ![c] = r.out]
    /\ pc' = [pc EXCEPT ![c] = "idle"]
    /\ issued' = issued + 1
    /\ UNCHANGED <<loc, chan, master_replication_offset, otherVars>>

\* string.rs 79-129, in a build with or without overflow checks
Incr_Run(c) ==
    /\ IncrReceives(c)
    /\ \E parsed \in IncrCmds, overflow_checks \in BOOLEAN :
        LET r == handle_incr_built(db, replicas, Tail(parsed), overflow_checks) IN
        /\ cmd' = [cmd EXCEPT ![c] = parsed]
        /\ db' = r.db
        /\ replicas' = r.replicas
        /\ reply' = [reply EXCEPT ![c] = r.out]
        /\ pc' = [pc EXCEPT ![c] = IF r.panic THEN "dead" ELSE "idle"]
    /\ issued' = issued + 1
    /\ UNCHANGED <<loc, chan, master_replication_offset, otherVars>>

InitIncr == InitList

NextIncr == \E c \in IncrClients : Incr_Prepare(c) \/ Incr_Run(c)

SpecIncr == InitIncr /\ [][NextIncr]_vars

\* ================================================================ SpecExpire
\* SET with and without the PX option, GET and INCR on one key while the clock advances.
\* handle_set reads the clock before it waits for the db mutex, so it runs in two steps;
\* handle_get reads it under the mutex and runs as one.
MaxExpireCmds == 3
MaxClock == 3       \* milliseconds the clock advances in a run
ExpireClients == {"A", "B"}
ExpireSetCmds ==
    {<<"SET", "q", "1", "PX", "2">>, <<"SET", "q", "5", "px", "0">>,
     <<"SET", "q", "1", "PX", "x">>, <<"SET", "q", "7">>}
ExpireGetCmds == {<<"GET", "q">>}
ExpireIncrCmds == {<<"INCR", "q">>}

ExpireReceives(c) == c \in ExpireClients /\ CanStart(c) /\ issued < MaxExpireCmds

\* string.rs 13-22: the arguments and Instant::now()
Expire_SetBegin(c) ==
    /\ ExpireReceives(c)
    /\ \E parsed \in ExpireSetCmds : cmd' = [cmd EXCEPT ![c] = parsed]
    /\ loc' = [loc EXCEPT ![c] = [NoLoc EXCEPT !.now = clock]]
    /\ reply' = [reply EXCEPT ![c] = <<>>]
    /\ pc' = [pc EXCEPT ![c] = "set_insert"]
    /\ issued' = issued + 1
    /\ UNCHANGED <<db, replicas, chan, master_replication_offset, otherVars>>

\* string.rs 23-36: the insert under the db mutex, the reply and the propagation
Expire_SetInsert(c) ==
    /\ pc[c] = "set_insert"
    /\ LET r == handle_set_at(db, replicas, Tail(cmd[c]), loc[c].now) IN
        /\ db' = r.db
        /\ replicas' = r.replicas
        /\ reply' = [reply EXCEPT ![c] = r.out]
    /\ loc' = [loc EXCEPT ![c] = NoLoc]
    /\ pc' = [pc EXCEPT ![c] = "idle"]
    /\ UNCHANGED <<cmd, chan, issued, master_replication_offset, otherVars>>

\* string.rs 44-77
Expire_Get(c) ==
    /\ ExpireReceives(c)
    /\ \E parsed \in ExpireGetCmds :
        LET r == handle_get_at(db, Tail(parsed), clock) IN
        /\ cmd' = [cmd EXCEPT ![c] = parsed]
        /\ db' = r.db
        /\ reply' = [reply EXCEPT ![c] = r.out]
    /\ pc' = [pc EXCEPT ![c] = "idle"]
    /\ issued' = issued + 1
    /\ UNCHANGED <<replicas, loc, chan, master_replication_offset, otherVars>>

\* string.rs 79-129
Expire_Incr(c) ==
    /\ ExpireReceives(c)
    /\ \E parsed \in ExpireIncrCmds :
        LET r == Dispatch(parsed, db, replicas) IN
        /\ cmd' = [cmd EXCEPT ![c] = parsed]
        /\ db' = r.db
        /\ replicas' = r.replicas
        /\ reply' = [reply EXCEPT ![c] = r.out]
        /\ pc' = [pc EXCEPT ![c] = IF r.panic THEN "dead" ELSE "idle"]
    /\ issued' = issued + 1
    /\ UNCHANGED <<loc, chan, master_replication_offset, otherVars>>

\* a millisecond passes
Expire_Tick ==
    /\ clock < MaxClock
    /\ clock' = clock + 1
    /\ UNCHANGED <<db, blocked_clients, replicas, dbLock, blockedLock, replicasLock, pc,
                   cmd, loc, chan, reply, issued, sigHead, txn, exec,
                   master_replication_offset, slave_replication_offset, master_stream>>

InitExpire == InitList

NextExpire ==
    \/ Expire_Tick
    \/ \E c \in ExpireClients :
        Expire_SetBegin(c) \/ Expire_SetInsert(c) \/ Expire_Get(c) \/ Expire_Incr(c)

SpecExpire == InitExpire /\ [][NextExpire]_vars

\* ================================================================ SpecFollower
\* A replica after its handshake: the task of handle_master_stream reads the frames its
\* master sends, runs each through handle_command and counts its bytes.  master_stream
\* holds the frames sent and not yet read (unread), the task's buffer, the frames drained
\* from the buffer (consumed) and what the task has written to the master (written).
MaxFrames == 3
\* what a master writes to a replica link: the write loops of string.rs, list.rs and
\* protocol.rs, and the GETACK of replication.rs 125-132
MasterFrames ==
    {<<"SET", "q", "1">>, <<"INCR", "q">>, <<"RPUSH", "q", "a">>, <<"LPOP", "q">>,
     <<"LPOP", "q", "2">>, <<"XADD", "r", "1-1", "f", "a">>, GetAck}

\* replication.rs 7-34, with `off` the slave_replication_offset read at line 15
handle_replconf(args, off) ==
    IF Len(args) >= 2 /\ args[1] \in {"GETACK", "getack"}
    THEN <<RArray(<<"REPLCONF", "ACK", ToString(off)>>)>>
    ELSE <<RSimple("OK")>>

\* server.rs 217-218: `*offset += consumed_bytes as u64`, with consumed_bytes the length
\* parse_resp returns, the length of the frame's serialization
\* mutant of Consume: the array header of the frame is not counted
Consume_Payload(offset, parsed) == offset + BulkLen(parsed)
Consume(offset, parsed) == offset + SerializedLen(parsed)

\* the master writes a frame on the link
Follower_Arrive ==
    /\ Len(master_stream.unread) + Len(master_stream.buffer) + Len(master_stream.consumed)
            < MaxFrames
    /\ \E frame \in MasterFrames :
            master_stream' = [master_stream EXCEPT !.unread = Append(@, frame)]
    /\ UNCHANGED <<db, blocked_clients, replicas, dbLock, blockedLock, replicasLock, pc,
                   cmd, loc, chan, reply, issued, sigHead, txn, exec,
                   master_replication_offset, clock, slave_replication_offset>>

\* server.rs 230-243: with no whole frame left in the buffer, read what has arrived
Follower_Read ==
    /\ master_stream.task = "running"
    /\ master_stream.buffer = <<>> /\ master_stream.unread # <<>>
    /\ \E n \in 1..Len(master_stream.unread) :
            master_stream' =
                [master_stream EXCEPT
                    !.buffer = SubSeq(master_stream.unread, 1, n),
                    !.unread = SubSeq(master_stream.unread, n + 1, Len(master_stream.unread))]
    /\ UNCHANGED <<db, blocked_clients, replicas, dbLock, blockedLock, replicasLock, pc,
                   cmd, loc, chan, reply, issued, sigHead, txn, exec,
                   master_replication_offset, clock, slave_replication_offset>>

\* server.rs 178-219: the first frame of the buffer goes through handle_command, a
\* REPLCONF with the socket to the master as its output and any other command with a
\* sink; then the offset is raised and the frame drained.  A panic of the handler ends
\* the task before either.
Follower_Apply ==
    /\ master_stream.task = "running" /\ master_stream.buffer # <<>>
    /\ LET parsed == Head(master_stream.buffer)
           x == handle_xadd(db, replicas, master_replication_offset, Tail(parsed), clock)
           r == Dispatch(parsed, db, replicas)
           is_replconf == parsed[1] = "REPLCONF"
           is_xadd == parsed[1] = "XADD"
           panic == ~is_replconf /\ ~is_xadd /\ r.panic
       IN  /\ db' = IF is_replconf THEN db ELSE IF is_xadd THEN x.db ELSE r.db
           /\ replicas' = IF is_replconf THEN replicas
                          ELSE IF is_xadd THEN x.replicas ELSE r.replicas
           /\ master_replication_offset' =
                    IF is_xadd THEN x.offset ELSE master_replication_offset
           /\ IF panic
              THEN /\ master_stream' = [master_stream EXCEPT !.task = "dead"]
                   /\ UNCHANGED slave_replication_offset
              ELSE /\ master_stream' =
                        [master_stream EXCEPT
                            !.buffer = Tail(@),
                            !.consumed = Append(@, parsed),
                            !.written = IF is_replconf
                                        THEN @ \o handle_replconf(Tail(parsed),
                                                                  slave_replication_offset)
                                        ELSE @]
                   /\ slave_replication_offset' = Consume(slave_replication_offset, parsed)
    /\ UNCHANGED <<blocked_clients, dbLock, blockedLock, replicasLock, pc, cmd, loc, chan,
                   reply, issued, sigHead, txn, exec, clock>>

\* server.rs 83-86: the state when handle_master_stream is spawned
InitFollower ==
    /\ db = [k \in Keys |-> Absent]
    /\ blocked_clients = <<>>
    /\ replicas = <<>>
    /\ dbLock = NoClient /\ blockedLock = NoClient /\ replicasLock = NoClient
    /\ pc = [c \in Clients |-> "new"]
    /\ cmd = [c \in Clients |-> <<>>]
    /\ loc = [c \in Clients |-> NoLoc]
    /\ chan = [c \in Clients |-> NoChan]
    /\ reply = [c \in Clients |-> <<>>]
    /\ issued = 0
    /\ sigHead = [c \in Clients |-> ""]
    /\ txn = [c \in Clients |-> NoTxn]
    /\ exec = [c \in Clients |-> NoExec]
    /\ master_replication_offset = 0
    /\ clock = 0
    /\ slave_replication_offset = 0
    /\ master_stream = [NoMasterStream EXCEPT !.task = "running"]

NextFollower == Follower_Arrive \/ Follower_Read \/ Follower_Apply

SpecFollower == InitFollower /\ [][NextFollower]_vars

\* ================================================================ SpecOrder
\* A master with one replica: connection A has sent PSYNC ? -1 and its link is in the
\* replica list; B and C send the commands of SpecList, whose handlers run interleaved
\* by the steps of SpecList.
OrderClients == {"B", "C"}
OrderReplica == "A"

InitOrder ==
    /\ db = [k \in Keys |-> Absent]
    /\ blocked_clients = <<>>
    /\ replicas = Promote(<<>>, OrderReplica, <<"PSYNC", "?", "-1">>)
    /\ dbLock = NoClient /\ blockedLock = NoClient /\ replicasLock = NoClient
    /\ pc = [c \in Clients |-> IF c = OrderReplica THEN "replica" ELSE "new"]
    /\ cmd = [c \in Clients |-> IF c = OrderReplica THEN <<"PSYNC", "?", "-1">> ELSE <<>>]
    /\ loc = [c \in Clients |-> NoLoc]
    /\ chan = [c \in Clients |-> NoChan]
    /\ reply = [c \in Clients |->
                    IF c = OrderReplica
                    THEN handle_psync_at(db, <<>>, <<"?", "-1">>, 0).out ELSE <<>>]
    /\ issued = 0
    /\ sigHead = [c \in Clients |-> ""]
    /\ txn = [c \in Clients |-> NoTxn]
    /\ exec = [c \in Clients |-> NoExec]
    /\ master_replication_offset = 0
    /\ clock = 0
    /\ slave_replication_offset = 0
    /\ master_stream = NoMasterStream

NextOrder ==
    \E c \in OrderClients :
        \/ Push_Begin(c) \/ Push_LockBlocked(c) \/ Push_PopWaiter(c) \/ Push_Data(c)
        \/ Push_Signal(c) \/ Push_Reply(c)
        \/ Blpop_Begin(c) \/ Blpop_Check(c) \/ Blpop_LockBlocked(c) \/ Blpop_Register(c)
        \/ Blpop_Wake(c) \/ Blpop_Timeout(c) \/ Blpop_Pop(c)
        \/ Blpop_CancelLock(c) \/ Blpop_Cancel(c)
        \/ Lpop_Run(c) \/ Set_Run(c)
        \/ Repl_Lock(c) \/ Repl_Write(c)

SpecOrder == InitOrder /\ [][NextOrder]_vars

\* ================================================================ claims on SpecList
CurrentId(c) == <<c, chan[c].k>>
WaitKey(c) == Head(loc[c].keysLeft)
HasData(key) == db[key].type = "list" /\ db[key].list # <<>>
Occurrences(id) ==
    {<<k, i>> \in Keys \X (1..Cardinality(Clients)) :
        k \in DOMAIN blocked_clients /\ i <= Len(blocked_clients[k])
            /\ blocked_clients[k][i].id = id}
HeldBy(id) == {p \in Clients : loc[p].client_to_wake.id = id}
OnlyPushed(d) == reply[d] = <<>> \/ (Len(reply[d]) = 1 /\ reply[d][1].kind = "int")

\* C1: a BLPOP with timeout 0 that found its key empty does not stay blocked once a
\* push on that key has been processed: whenever every other connection is at rest and
\* has only pushed, a waiter that is still registered and unsignalled sees an empty key.
C1_NoLostWakeup ==
    \A c \in Clients :
        (/\ pc[c] = "bl_await" /\ chan[c].st = "open" /\ loc[c].timeout = 0
         /\ \A d \in Clients \ {c} : pc[d] \in {"new", "idle"} /\ OnlyPushed(d))
            => ~HasData(WaitKey(c))

\* C2: a BLPOP woken by a push replies [key, e] with e the head of the list at the
\* instant the signal was sent, and its pop shortens the list by exactly one (stated
\* for the runs in which no connection task has panicked).
C2_WokenPopsSignalledHead ==
    [][\A c \in Clients :
        (pc[c] = "bl_pop" /\ pc'[c] # "bl_pop" /\ \A d \in Clients : pc[d] # "dead") =>
            /\ reply'[c] = Append(reply[c], RArray(<<WaitKey(c), sigHead[c]>>))
            /\ db[WaitKey(c)].type = "list" /\ db'[WaitKey(c)].type = "list"
            /\ Len(db'[WaitKey(c)].list) = Len(db[WaitKey(c)].list) - 1]_vars

Without(queue, id) == LET Other(w) == w.id # id IN SelectSeq(queue, Other)
QueueOf(bm, k) == IF k \in DOMAIN bm THEN bm[k] ELSE <<>>

\* C4: the cleanup after a BLPOP timeout replies nil, leaves no entry with the waiter's
\* id in the registry, keeps the other waiters of every key in their order, and leaves
\* no empty queue in the registry map.
C4_TimeoutCleanup ==
    [][\A c \in Clients :
        (pc[c] = "bl_cancel" /\ pc'[c] # "bl_cancel") =>
            /\ reply'[c] = Append(reply[c], RNil)
            /\ \A k \in Keys :
                /\ QueueOf(blocked_clients', k) = Without(QueueOf(blocked_clients, k), CurrentId(c))
                /\ k \in DOMAIN blocked_clients' => blocked_clients'[k] # <<>>]_vars

\* C4 witness: a BLPOP on q has timed out, cleaned up and replied nil while two other
\* waiters are still queued on q
C4_Witness ==
    \E c \in Clients :
        /\ cmd[c] = <<"BLPOP", "q", "r", "1">> /\ loc[c].keysLeft = <<"r">>
        /\ pc[c] = "bl_check" /\ reply[c] = <<RNil>>
        /\ "q" \in DOMAIN blocked_clients /\ Len(blocked_clients["q"]) = 2

\* C5: a pusher signals the waiter only after the pushed element is in the list and
\* after it has released the db lock.
C5_SignalAfterRelease ==
    [][\A c \in Clients :
        (chan[c].st = "open" /\ chan'[c].st = "sent") =>
            /\ HasData(WaitKey(c))
            /\ dbLock = NoClient /\ dbLock' = NoClient]_vars

\* every step of a handler that is past its first one
Step(c) ==
    \/ Push_LockBlocked(c) \/ Push_PopWaiter(c) \/ Push_Data(c) \/ Push_Signal(c)
    \/ Push_Reply(c) \/ Blpop_Check(c) \/ Blpop_LockBlocked(c) \/ Blpop_Register(c)
    \/ Blpop_Wake(c) \/ Blpop_Timeout(c) \/ Blpop_Pop(c) \/ Blpop_CancelLock(c)
    \/ Blpop_Cancel(c) \/ Repl_Lock(c) \/ Repl_Write(c)
Wanted(c) ==
    IF pc[c] \in {"bl_check", "bl_pop"} THEN dbLock
    ELSE IF pc[c] \in {"push_lock_blocked", "bl_lock_blocked", "bl_cancel_lock"}
    THEN blockedLock
    ELSE IF pc[c] = "repl_lock" THEN replicasLock
    ELSE NoClient
CanRun(c) == ENABLED Step(c)
CanProgress(c) ==
    \/ CanRun(c)
    \/ Wanted(c) \in Clients \ {c} /\ CanRun(Wanted(c))
    \/ /\ Wanted(c) \in Clients \ {c}
       /\ Wanted(Wanted(c)) \in Clients \ {c, Wanted(c)}
       /\ CanRun(Wanted(Wanted(c)))

\* C6: the holder of the registry mutex is never at a point that acquires the db mutex,
\* no BLPOP awaits its signal while holding the db mutex, and no connection inside a
\* handler (other than a BLPOP awaiting its signal) is stuck: it can step, or the holder
\* of the mutex it waits for can.
C6_NoDeadlock ==
    /\ \A c \in Clients :
        blockedLock = c => pc[c] \in {"push_pop", "bl_register", "bl_cancel"}
    /\ \A c \in Clients : pc[c] = "bl_await" => dbLock # c
    /\ \A c \in Clients :
        pc[c] \notin {"new", "idle", "dead", "bl_await"} => CanProgress(c)
    /\ \A c \in Clients :
        c \in {dbLock, blockedLock, replicasLock} => CanProgress(c)

\* C6 witness: a pusher holding the db mutex waits for the registry mutex, which a BLPOP
\* that is registering itself holds, while a third connection waits for the db mutex
C6_Witness ==
    \E p, b, w \in Clients :
        /\ pc[p] = "push_lock_blocked" /\ dbLock = p
        /\ pc[b] = "bl_register" /\ blockedLock = b
        /\ pc[w] = "bl_check"

C34_LpopAlwaysReplies ==
    [][\A c \in Clients :
        (Lpop_Run(c) /\ \E parsed \in LpopCmds : db[parsed[2]].type = "list") =>
            /\ pc'[c] # "dead"
            /\ reply'[c] # <<>>
            /\ \A key \in Keys :
                    db[key].type = "list" /\ db[key].list = <<>> => db'[key] = db[key]]_vars

\* C31: a handler that is at a socket write, the reply to its client (list.rs 60) or the
\* frames to the replicas (list.rs 62-71), holds neither the Store mutex nor the
\* replica-list mutex.
C31_NoMutexAcrossWrite ==
    \A c \in Clients :
        pc[c] \in {"push_reply", "repl_write"} => dbLock # c /\ replicasLock # c

\* C35: a connection whose handler has returned and that waits for its next command has
\* been written exactly one reply for the command it sent last, a BLPOP naming several
\* keys and a BLPOP woken when its key holds no list included.
C35_OneReplyPerCommand ==
    \A c \in Clients : pc[c] = "idle" => Len(reply[c]) = 1

\* ================================================================ claims on SpecTxn
Queueing(c) == txn[c].in_transaction
QUEUED == RSimple("QUEUED")

\* C7: a command other than MULTI, EXEC and DISCARD received in the QUEUEING state is
\* appended to the connection's queue and answered +QUEUED, and that step leaves the db,
\* the waiter registry, the replica list with its offsets, and every other connection's
\* transaction state as they were.
C7_QueueingOnlyQueues ==
    [][\A c \in TxnClients :
        Txn_Queue(c) =>
            /\ \E parsed \in QueueableCmds :
                txn'[c] = [txn[c] EXCEPT !.queued_commands = Append(@, parsed)]
            /\ reply'[c] = <<QUEUED>>
            /\ UNCHANGED <<db, blocked_clients, replicas, exec>>
            /\ \A d \in Clients \ {c} : txn'[d] = txn[d]]_vars

\* C8: an EXEC received in the QUEUEING state leaves the connection in NORMAL with an
\* empty queue and replies *0 when nothing was queued; an EXEC that runs N queued
\* commands ends by replying *N followed by N replies; and with no other connection
\* active, MULTI, SET q 1, INCR q, EXEC replies *2, +OK, :2.
C8_ExecRunsQueue ==
    [][\A c \in TxnClients :
        /\ (Txn_Exec(c) /\ Queueing(c)) =>
            /\ txn'[c] = NoTxn
            /\ txn[c].queued_commands = <<>> => reply'[c] = <<RArrayLen(0)>>
        /\ (pc[c] = "exec" /\ pc'[c] # "exec") =>
            /\ pc'[c] = "idle"
            /\ Len(reply'[c]) = exec[c].n + 1
            /\ reply'[c][1] = RArrayLen(exec[c].n)
        /\ (/\ pc[c] = "exec" /\ pc'[c] # "exec" /\ exec[c].todo = <<<<"INCR", "q">>>>
            /\ exec[c].response = <<RArrayLen(2), RSimple("OK")>>
            /\ \A d \in Clients \ {c} : pc[d] = "new") =>
                reply'[c] = <<RArrayLen(2), RSimple("OK"), RInt(2)>>]_vars

\* C9: EXEC or DISCARD received in the NORMAL state replies its "without MULTI" error
\* and leaves every connection's transaction state, the db and the replica list as
\* they were; the connection goes on reading commands.
C9_WithoutMulti ==
    [][\A c \in TxnClients :
        /\ (Txn_Exec(c) /\ ~Queueing(c)) =>
            /\ reply'[c] = <<RError("ERR EXEC without MULTI")>>
            /\ pc'[c] = "idle"
            /\ UNCHANGED <<txn, exec, db, replicas>>
        /\ (Txn_Discard(c) /\ ~Queueing(c)) =>
            /\ reply'[c] = <<RError("ERR DISCARD without MULTI")>>
            /\ pc'[c] = "idle"
            /\ UNCHANGED <<txn, exec, db, replicas>>]_vars

\* C9 witness: with a value stored under q, one connection has been refused an EXEC and
\* the other a DISCARD
C9_Witness ==
    \E c, d \in TxnClients :
        /\ cmd[c] = <<"EXEC">> /\ reply[c] = <<RError("ERR EXEC without MULTI")>>
        /\ cmd[d] = <<"DISCARD">> /\ reply[d] = <<RError("ERR DISCARD without MULTI")>>
        /\ db["q"] # Absent

\* C10: a DISCARD received in the QUEUEING state clears the queue, returns the
\* connection to NORMAL and replies +OK without starting any execution; the steps of a
\* connection from MULTI to DISCARD leave the db untouched; and a connection in NORMAL
\* that is not running an EXEC holds no queued command that could still run.
C10_DiscardDropsQueue ==
    [][\A c \in TxnClients :
        /\ (Txn_Discard(c) /\ Queueing(c)) =>
            /\ txn'[c] = NoTxn
            /\ reply'[c] = <<RSimple("OK")>>
            /\ pc'[c] = "idle" /\ exec'[c] = NoExec
            /\ UNCHANGED <<db, replicas>>
        /\ (Txn_Multi(c) \/ Txn_Queue(c) \/ Txn_Discard(c)) => db' = db
        /\ (~txn'[c].in_transaction /\ pc'[c] # "exec") =>
            txn'[c].queued_commands = <<>> /\ exec'[c].todo = <<>>]_vars

\* C10 witness: a connection has discarded its transaction and is back in NORMAL while
\* the other connection, which wrote q in the meantime, still has commands queued
C10_Witness ==
    \E c, d \in TxnClients :
        /\ cmd[c] = <<"DISCARD">> /\ reply[c] = <<RSimple("OK")>> /\ txn[c] = NoTxn
        /\ db["q"] # Absent
        /\ Queueing(d) /\ txn[d].queued_commands # <<>>

\* C11: a MULTI received in the QUEUEING state is answered with the error "MULTI calls
\* can not be nested" and leaves the open transaction as it was.
C11_NestedMultiRefused ==
    [][\A c \in TxnClients :
        (Txn_Multi(c) /\ Queueing(c)) =>
            /\ reply'[c] = <<RError("ERR MULTI calls can not be nested")>>
            /\ txn'[c] = txn[c]]_vars

\* C37: a connection joins the replica list only on a step that wrote the FULLRESYNC
\* line and the snapshot to it: a PSYNC answered +QUEUED inside MULTI, or refused with an
\* arity error, leaves the replica list and the connection's command loop as they were.
C37_PromotedOnlyAfterSnapshot ==
    [][\A c \in TxnClients :
        \/ pc[c] # "replica" /\ pc'[c] = "replica"
        \/ Len(replicas') > Len(replicas) /\ replicas'[Len(replicas')].stream = c
        => /\ Len(reply'[c]) = 2
           /\ reply'[c][1].kind = "simple"
           /\ reply'[c][2] = RSnapshot]_vars

\* ================================================================ claims on SpecStream
\* an id read as the pair (ms, seq) of integers; (0, 0) for a word that is no id
NumId(id) ==
    LET p == Split(id) IN
    IF Len(p) = 2 THEN <<UnwrapOr0(ParseU(p[1])), UnwrapOr0(ParseU(p[2]))>> ELSE <<0, 0>>
PairLess(a, b) == a[1] < b[1] \/ (a[1] = b[1] /\ a[2] < b[2])
IdLess(a, b) == PairLess(NumId(a), NumId(b))
StreamAt(d, key) == IF d[key].type = "stream" THEN d[key].stream ELSE EmptyStream
Ids(st) == {st.entries[i].id : i \in DOMAIN st.entries}
Succeeded(c) == Len(reply'[c]) = 1 /\ reply'[c][1].kind = "bulk"
\* the id an XADD step of c stands for, by stream.rs 69-108
Resulting(c) == XaddId(StreamAt(db, cmd'[c][2]).last_id, cmd'[c][3], loc'[c].now)

\* C12 as stated: the id returned by a successful XADD is greater, as a pair of integers,
\* than every id returned before on that stream, and an XADD whose resulting id is not
\* greater than last_id is rejected with the "equal or smaller" error.
C12_XaddStrictlyIncreasing ==
    [][\A c \in StreamClients :
        Xadd_Run(c) =>
            LET st == StreamAt(db, cmd'[c][2])
                cur == Resulting(c)
            IN  /\ Succeeded(c) => \A id \in Ids(st) : IdLess(id, reply'[c][1].s)
                /\ (cur.ok /\ ~PairLess(NumId(st.last_id), <<cur.ms, cur.seq>>)) =>
                        reply'[c] = <<top_item_err>>]_vars

\* C12 amended: as above, except that a resulting id of 0-0 is rejected with the
\* "must be greater than 0-0" error, which the handler tests first.
C12_XaddIncreasingOrRejected ==
    [][\A c \in StreamClients :
        Xadd_Run(c) =>
            LET st == StreamAt(db, cmd'[c][2])
                cur == Resulting(c)
            IN  /\ Succeeded(c) => \A id \in Ids(st) : IdLess(id, reply'[c][1].s)
                /\ (cur.ok /\ ~PairLess(NumId(st.last_id), <<cur.ms, cur.seq>>)) =>
                        reply'[c] = IF <<cur.ms, cur.seq>> = <<0, 0>>
                                    THEN <<zero_id_err>> ELSE <<top_item_err>>]_vars

\* C12 witness: on a stream that has an entry, one connection was refused an id that is
\* not above the top item and the other the id 0-0
C12_Witness ==
    \E c, d \in StreamClients :
        /\ cmd[c] # <<>> /\ cmd[c][1] = "XADD" /\ reply[c] = <<top_item_err>>
        /\ cmd[d] = <<"XADD", "q", "0-0", "f", "a">> /\ reply[d] = <<zero_id_err>>
        /\ StreamAt(db, "q").entries # <<>>

\* C13: after every step, each stream's last_id is 0-0 when the stream has no entry and
\* otherwise is the id of one of its entries and not below any of them; and a
\* successful XADD leaves last_id equal to the id it inserted and returned.
C13_LastIdIsNewest ==
    [][/\ \A k \in Keys :
            db'[k].type = "stream" =>
                LET st == db'[k].stream IN
                /\ st.entries = <<>> => st.last_id = "0-0"
                /\ st.entries # <<>> =>
                    /\ st.last_id \in Ids(st)
                    /\ \A id \in Ids(st) : ~IdLess(st.last_id, id)
       /\ \A c \in StreamClients :
            (Xadd_Run(c) /\ Succeeded(c)) =>
                LET st == db'[cmd'[c][2]].stream IN
                /\ st.last_id = reply'[c][1].s
                /\ st.last_id \in Ids(st) /\ st.last_id \notin Ids(StreamAt(db, cmd'[c][2]))
      ]_vars

\* C13 witness: a stream whose newest entry 10-0 is not the last key of its entry map
C13_Witness ==
    /\ db["q"].type = "stream" /\ Len(db["q"].stream.entries) = 2
    /\ db["q"].stream.last_id = "10-0" /\ db["q"].stream.entries[1].id = "10-0"

\* entries listed in ascending order of their ids read as (ms, seq)
Ascending(es) == \A i, j \in DOMAIN es : i < j => IdLess(es[i].id, es[j].id)
AsSet(es) == {es[i] : i \in DOMAIN es}

\* C14: XRANGE k - + on a stream replies with every entry of the stream exactly once,
\* with the fields it was inserted with, in ascending order of the ids compared as
\* pairs of integers (the order of insertion, since inserted ids only grow).
C14_XrangeInInsertionOrder ==
    [][\A c \in StreamClients :
        (Xrange_Run(c) /\ db[cmd'[c][2]].type = "stream") =>
            LET st == db[cmd'[c][2]].stream
                out == reply'[c][1]
            IN  /\ Len(reply'[c]) = 1 /\ out.kind = "entries"
                /\ Len(out.sub) = Len(st.entries)
                /\ AsSet(out.sub) = AsSet(st.entries)
                /\ Ascending(out.sub)]_vars

\* the step on which an XREAD of c writes its reply
XreadReplies(c) == pc[c] \in {"xr_check", "xr_wait"} /\ pc'[c] = "idle"
\* the (key, id) pair of an XREAD as it stands after the resolution of `$`
XreadKey(c) == loc[c].frame[Len(loc[c].frame) - 1]
XreadId(c) == loc[c].frame[Len(loc[c].frame)]
Newer(d, key, id) == {e \in AsSet(StreamAt(d, key).entries) : IdLess(id, e.id)}

\* C15: an XREAD that replies entries replies, for its key, exactly the entries whose id
\* is greater than the supplied id as a pair of integers; a non-blocking XREAD replies
\* nil only when there is no such entry; and `$` is replaced by the stream's last_id
\* on the step that receives the command.
C15_XreadStrictlyGreater ==
    [][\A c \in StreamClients :
        /\ (XreadReplies(c) /\ reply'[c][1].kind = "streams") =>
                /\ Len(reply'[c][1].sub) = 1
                /\ reply'[c][1].sub[1].key = XreadKey(c)
                /\ AsSet(reply'[c][1].sub[1].entries) = Newer(db, XreadKey(c), XreadId(c))
                /\ Len(reply'[c][1].sub[1].entries) =
                        Cardinality(Newer(db, XreadKey(c), XreadId(c)))
        /\ (XreadReplies(c) /\ pc[c] = "xr_check" /\ reply'[c] = <<RNil>>) =>
                Newer(db, XreadKey(c), XreadId(c)) = {}
        /\ (Xread_Begin(c) /\ cmd'[c][Len(cmd'[c])] = "$"
                /\ db[cmd'[c][Len(cmd'[c]) - 1]].type = "stream") =>
                loc'[c].frame[Len(loc'[c].frame)] =
                    db[cmd'[c][Len(cmd'[c]) - 1]].stream.last_id]_vars

\* C16: no XREAD BLOCK is left asleep on its receiver, with nothing to wake it and every
\* other connection at rest, while its stream holds an entry above the requested id.
C16_XreadNeverMissesArrival ==
    \A c \in StreamClients :
        (/\ pc[c] = "xr_wait" /\ chan[c].st = "open" /\ loc[c].timeout = 0
         /\ \A d \in StreamClients \ {c} : pc[d] \in {"idle", "new"}) =>
            Newer(db, XreadKey(c), XreadId(c)) = {}

\* C39: an XADD that is rejected with an error leaves the keyspace as it was (a key that
\* was absent stays absent, a stream keeps its entries and last_id) and sends no
\* stream-arrival signal.
C39_RejectedXaddChangesNothing ==
    [][\A c \in StreamClients :
        (Xadd_Run(c) /\ Len(reply'[c]) = 1 /\ reply'[c][1].kind = "error") =>
            db' = db /\ chan' = chan]_vars

\* C32: XADD with the id `*` on a stream whose last_id is not ahead of the clock returns
\* <now>-0, or <now>-(last seq + 1) when last_id carries the same millisecond: two such
\* XADDs within one millisecond both succeed, with increasing ids.
C32_StarIdWithinMillisecond ==
    [][\A c \in StreamClients :
        (Xadd_Run(c) /\ cmd'[c][3] = "*" /\ db[cmd'[c][2]].type \in {"none", "stream"}) =>
            LET last == NumId(StreamAt(db, cmd'[c][2]).last_id)
                now == loc'[c].now
                seq == IF now = last[1] THEN last[2] + 1 ELSE 0
            IN  now >= last[1] =>
                    reply'[c] = <<RBulk(ToString(now) \o "-" \o ToString(seq))>>]_vars

\* C33: XADD with the id `ms-*` stands for the sequence last seq + 1 when ms equals the
\* millisecond of last_id as an integer, and for 0 otherwise (1 when ms is 0), whatever
\* the stream holds; the id it returns is ms-seq whenever that id is above last_id.
C33_SeqWildcard ==
    [][\A c \in StreamClients :
        (Xadd_Run(c) /\ Len(Split(cmd'[c][3])) = 2 /\ Split(cmd'[c][3])[2] = "*"
            /\ db[cmd'[c][2]].type \in {"none", "stream"}) =>
            LET last == NumId(StreamAt(db, cmd'[c][2]).last_id)
                ms == UnwrapOr0(ParseU(Split(cmd'[c][3])[1]))
                seq == IF ms = last[1] THEN last[2] + 1 ELSE IF ms = 0 THEN 1 ELSE 0
            IN  PairLess(last, <<ms, seq>>) =>
                    reply'[c] = <<RBulk(ToString(ms) \o "-" \o ToString(seq))>>]_vars

\* ================================================================ claims on SpecRepl
\* a step on which c runs one of SET, INCR, RPUSH, LPOP, XADD to its return
WriteStep(c) == Master_Write(c) \/ Master_Xadd(c)
\* the command succeeded: it returned and its reply is neither an error nor nil
SuccessfulWrite(c) ==
    /\ WriteStep(c) /\ pc'[c] = "idle"
    /\ Len(reply'[c]) = 1 /\ reply'[c][1].kind \notin {"error", "nil"}
\* every replica connected before the step has received exactly the frame, once
PropagatedOnce(frame) ==
    /\ Len(replicas') = Len(replicas)
    /\ \A i \in DOMAIN replicas : replicas'[i] = [replicas[i] EXCEPT !.recv = Append(@, frame)]
NothingPropagated ==
    /\ \A i \in DOMAIN replicas : replicas'[i] = replicas[i]
    /\ master_replication_offset' = master_replication_offset

\* C17: with at least one replica connected, a successful SET, INCR, RPUSH, LPOP or XADD
\* hands its serialized command to every replica and adds the length of that serialization
\* to master_replication_offset once; after SET a b with one replica and nothing sent
\* before, INFO reports the offset 31.
C17_WriteAdvancesOffset ==
    [][\A c \in {Commander} :
        (SuccessfulWrite(c) /\ replicas # <<>>) =>
            /\ PropagatedOnce(cmd'[c])
            /\ master_replication_offset' =
                    master_replication_offset + SerializedLen(cmd'[c])
            /\ (cmd'[c] = <<"SET", "a", "b">> /\ Len(replicas) = 1
                    /\ master_replication_offset = 0) =>
                    handle_info(master_replication_offset') =
                        <<RBulk("master_repl_offset:31")>>]_vars

\* C18: a round of WAIT that writes REPLCONF GETACK * to the replicas raises
\* master_replication_offset by the length of the frame (once, or once per replica
\* written to), and leaves the offset that WAIT snapshotted on entry as it was.
C18_GetackAdvancesOffset ==
    [][\A c \in {Commander} :
        (Wait_Getack(c) /\ replicas # <<>>) =>
            /\ master_replication_offset' \in
                    {master_replication_offset + SerializedLen(GetAck),
                     master_replication_offset + Len(replicas) * SerializedLen(GetAck)}
            /\ loc'[c].master_offset = loc[c].master_offset]_vars

\* C19: every successful SET, INCR, RPUSH, LPOP and XADD is handed to every replica
\* connected at that time exactly once, whichever path of its handler it took.
C19_EverySuccessPropagates ==
    [][\A c \in {Commander} : SuccessfulWrite(c) => PropagatedOnce(cmd'[c])]_vars

\* the steps of a BLPOP of c, from its receipt to its return
BlpopStep(c) ==
    \/ Master_Blpop(c) \/ Blpop_Check(c) \/ Blpop_LockBlocked(c) \/ Blpop_Register(c)
    \/ Blpop_Timeout(c) \/ Blpop_CancelLock(c) \/ Blpop_Cancel(c)
    \/ Repl_Lock(c) \/ Repl_Write(c)

\* C20: a command that replies an error, a read command (GET, INFO) and every step of a
\* BLPOP leave what each replica has received and master_replication_offset unchanged.
C20_OnlySuccessPropagates ==
    [][\A c \in {Commander} :
        /\ (WriteStep(c) /\ Len(reply'[c]) = 1 /\ reply'[c][1].kind = "error") =>
                NothingPropagated
        /\ Master_Read(c) => NothingPropagated
        /\ BlpopStep(c) => NothingPropagated]_vars

\* the type a command works on
OwnType(command) ==
    IF command = "GET" THEN "string"
    ELSE IF command \in {"LPUSH", "RPUSH", "LPOP"} THEN "list"
    ELSE "stream"

\* the step in which the commander's command `parsed` meets a key of another type
MeetsOtherType(c) ==
    /\ issued' = issued + 1
    /\ cmd'[c][1] \in {"GET", "LPUSH", "RPUSH", "LPOP", "XADD", "XRANGE"}
    /\ db[cmd'[c][2]].type \notin {"none", OwnType(cmd'[c][1])}

\* C21: GET, LPUSH/RPUSH, LPOP, XADD and XRANGE against a key that holds a value of
\* another type reply WRONGTYPE and leave the value unchanged.
C21_WrongTypeRefused ==
    [][MeetsOtherType(Commander) =>
            reply'[Commander] = <<type_err>> /\ db' = db]_vars

\* the record of the link of c in the replica list
RecordOf(rs, c) == rs[CHOOSE i \in DOMAIN rs : rs[i].stream = c]
Larger(a, b) == IF a >= b THEN a ELSE b

\* C22: when a replica sends REPLCONF ACK n on its link, the master sets the offset of
\* that link's record to max(offset, n) and writes no reply: the offset never decreases
\* and reaches n.
C22_AckRaisesOffset ==
    [][\A c \in ReplicaConns :
        Replica_Ack(c) =>
            /\ RecordOf(replicas', c).offset =
                    Larger(RecordOf(replicas, c).offset, Received(RecordOf(replicas, c).recv))
            /\ reply' = reply]_vars

\* the step that writes the reply of c's WAIT, and the offset that WAIT read on entry
AnswersWait(c) ==
    /\ Master_Wait(c) \/ Wait_Begin(c) \/ Wait_Count(c)
    /\ reply'[c] # <<>>
WaitTarget(c) == IF issued' # issued THEN master_replication_offset ELSE loc[c].master_offset

\* C23: a WAIT numreplicas timeout with numreplicas > 0, entered at an offset > 0, is
\* answered with the integer count of the replicas whose acknowledged offset has reached
\* the offset read on entry.
C23_WaitRepliesCount ==
    [][\A c \in {Commander} :
        (AnswersWait(c) /\ ParseNat(cmd'[c][2]) > 0 /\ WaitTarget(c) > 0) =>
            reply'[c] =
                <<RInt(Cardinality({i \in DOMAIN replicas :
                                        replicas[i].offset >= WaitTarget(c)}))>>]_vars

\* C24: a WAIT with numreplicas = 0, or entered at offset 0, is answered at once with
\* the number of replicas in the list; no GETACK is written and nothing is waited for.
C24_WaitImmediate ==
    [][\A c \in {Commander} :
        ((Master_Wait(c) \/ Wait_Begin(c))
            /\ (ParseNat(cmd'[c][2]) = 0 \/ master_replication_offset = 0)) =>
            /\ reply'[c] = <<RInt(Len(replicas))>>
            /\ replicas' = replicas
            /\ pc'[c] = "idle"]_vars

\* the step on which c's SET has replied +OK (string.rs 27) and reached its write loop
SetReachesLoop(c) ==
    /\ Master_Write(c) /\ cmd'[c][1] = "SET"
    /\ reply'[c] # <<>> /\ reply'[c][1] = RSimple("OK")

\* C25: PSYNC ? -1 is answered with +FULLRESYNC <replid> <master_replication_offset>
\* and the snapshot, and the connection joins the replica list with offset 0; from then
\* on nothing it sends is run as a command, and its link receives every write the
\* master propagates.
C25_PsyncPromotes ==
    [][/\ \A c \in ReplicaConns :
            /\ Master_Psync(c) =>
                /\ reply'[c] =
                        <<RSimple("FULLRESYNC " \o master_replication_id \o " "
                                    \o ToString(master_replication_offset)), RSnapshot>>
                /\ replicas' = Append(replicas, ReplicaInfo(c))
                /\ RecordOf(replicas', c).offset = 0
            /\ pc[c] = "replica" => cmd'[c] = cmd[c] /\ reply'[c] = reply[c]
       /\ \A c \in {Commander} :
            SetReachesLoop(c) =>
                \A i \in DOMAIN replicas :
                    ~replicas[i].closed =>
                        replicas'[i].recv = Append(replicas[i].recv, cmd'[c])]_vars

\* C27: when the write to one replica fails, the client that sent the write gets its
\* success reply and nothing else and stays connected, every other replica receives the
\* frame, and the record of the failed link leaves the replica list.
C27_FailedReplicaDropped ==
    [][\A c \in {Commander} :
        (SetReachesLoop(c) /\ WriteFails(replicas)) =>
            /\ reply'[c] = <<RSimple("OK")>>
            /\ pc'[c] = "idle"
            /\ \A i \in DOMAIN replicas' : ~replicas'[i].closed
            /\ \A i \in DOMAIN replicas :
                    ~replicas[i].closed =>
                        \E j \in DOMAIN replicas' :
                            /\ replicas'[j].stream = replicas[i].stream
                            /\ replicas'[j].recv = Append(replicas[i].recv, cmd'[c])]_vars

\* C38: the bytes the master has written on a replica's link after the snapshot, which
\* bound the offset the replica counts and every offset it acknowledges, never exceed
\* master_replication_offset.
C38_OffsetCoversLinkBytes ==
    \A i \in DOMAIN replicas : Received(replicas[i].recv) <= master_replication_offset

\* server.rs 178-220 on a replica that has no replicas of its own: the Store after the
\* task of handle_master_stream has run the frames through handle_command, in order
RECURSIVE ApplyFrames(_, _)
ApplyFrames(d, frames) ==
    IF frames = <<>> THEN d
    ELSE LET parsed == Head(frames)
             next == IF parsed[1] = "XADD"
                     THEN handle_xadd(d, <<>>, 0, Tail(parsed), 0).db
                     ELSE Dispatch(parsed, d, <<>>).db
         IN  ApplyFrames(next, Tail(frames))

\* the frames written on the link of record i in this step
NewFrames(i) == SubSeq(replicas'[i].recv, Len(replicas[i].recv) + 1, Len(replicas'[i].recv))

\* C36: a replica whose Store equals the master's before a SET, INCR, RPUSH, LPOP or
\* XADD with an explicit id, and that applies every frame the command puts on its link,
\* has a Store equal to the master's afterwards.
C36_ReplicaConverges ==
    [][\A c \in {Commander} :
        WriteStep(c) =>
            \A i \in DOMAIN replicas :
                ~replicas[i].closed => ApplyFrames(db, NewFrames(i)) = db']_vars

\* ================================================================ claims on SpecIncr
\* C29: INCR of an absent key stores "1" and replies 1; INCR of a string that is the
\* decimal form of an i64 v with v + 1 representable stores the decimal form of v + 1
\* and replies it; in every other case, v = i64::MAX included, INCR replies "ERR value
\* is not an integer or out of range" and leaves the db as it was.
C29_IncrChecked ==
    [][\A c \in IncrClients :
        Incr_Run(c) =>
            LET key == cmd'[c][2]
                prev == ParseI64(db[key].str)
            IN  IF db[key].type = "none"
                THEN reply'[c] = <<RInt(1)>> /\ db' = [db EXCEPT ![key] = StringVal("1")]
                ELSE IF db[key].type = "string" /\ prev # NoI64 /\ prev # I64("max", 0)
                THEN /\ db' = [db EXCEPT ![key].str = to_string(I64(prev.base, prev.off + 1))]
                     /\ reply'[c] = <<RIntOf(db'[key].str)>>
                ELSE reply'[c] = <<range_err>> /\ db' = db]_vars

\* ================================================================ claims on SpecExpire
\* the step in which c's GET of `key` is answered
GetStep(c, key) == Expire_Get(c) /\ cmd'[c] = <<"GET", key>>

\* the instants from `from` on at which the entry has not passed a deadline it had
\* not passed at `from`
SameSideOfDeadline(entry, from) ==
    {t \in from..(MaxClock + 1) : Expired(entry.expires_at, t) = Expired(entry.expires_at, from)}

GetackAt(frames) == SelectSeq([i \in DOMAIN frames |-> i], LAMBDA i : frames[i] = GetAck)

AppliedNotSent(c) ==
    /\ pc[c] \in {"repl_lock", "repl_write"} /\ loc[c].frame # <<>>
    /\ cmd[c] # <<>>
    /\ cmd[c][1] = "BLPOP" => \E k \in DOMAIN reply[c] : reply[c][k].kind = "array"

\* C40: the replicas are handed the propagated writes in the order in which the handlers
\* changed the Store: when a handler that took the Store mutex for its write hands its
\* frame to the replicas, no other handler has an earlier change of the Store that is
\* still to be handed over.
C40_PropagatedInStoreOrder ==
    [][\A c, other \in OrderClients :
        (c # other /\ Repl_Write(other) /\ dbLock = other) => ~AppliedNotSent(c)]_vars
====
